---- MODULE Spec2Model ----
(***************************************************************************)
(* State-machine model of the NSE scraper (src/scraper.py, src/app.py).    *)
(*                                                                         *)
(* A call is one invocation of one of the six category functions           *)
(* get_<category>_for_symbol.  The source (nseindia.com), the browser       *)
(* binaries and the clock are the environment: every answer they can give  *)
(* is drawn with \E in the action that asks.                               *)
(*                                                                         *)
(* httpLog and browserLog are history variables: what a mock of            *)
(* requests.Session / webdriver.Chrome would have recorded for the call.   *)
(***************************************************************************)
EXTENDS Naturals, Sequences, FiniteSets, TLC

\* ------------------------------------------------------------------ bounds
NumCalls == 2      \* request-handling threads (app.run(threaded=True))
MaxItems == 1      \* longest JSON item list the source answers with
MaxRows  == 1      \* most data rows in a rendered table

Calls == 1..NumCalls

\* ------------------------------------------------------------ vocabulary
ListCategories == {"EventCalendar", "BoardMeetings", "CorporateActions", "Announcements"}
WorkerCategories == {"EquityQuote", "FinancialResults"}
Categories == ListCategories \cup WorkerCategories
NoCat == "NoCat"

\* What an HTTP GET of the requests session can end in: a 2xx answer, an
\* HTTP 403 (raise_for_status raises HTTPError), a transport error (the GET
\* itself raises).
HttpAnswers == {"ok", "blocked", "neterr"}

\* JSON items: objects (dicts) and one non-object item (a string).
ObjItems == {"o1", "o2"}
NonDict  == "nd"
Items    == ObjItems \cup {NonDict}
Absent   == <<"Absent">>     \* Python None: the key is not in the dict

RECURSIVE SeqsUpTo(_, _)
SeqsUpTo(S, n) ==
    IF n = 0 THEN {<<>>}
    ELSE LET shorter == SeqsUpTo(S, n - 1)
         IN shorter \cup {Append(s, x) : s \in {t \in shorter : Len(t) = n - 1}, x \in S}

ItemLists == SeqsUpTo(Items, MaxItems)
OptItemLists == ItemLists \cup {Absent}

\* The body of the API answer: not JSON at all, a JSON array, or a JSON
\* object that may carry "data", "rows" and other keys.
NotJson == [type |-> "notjson", data |-> Absent, rows |-> Absent, extra |-> FALSE, elems |-> <<>>]
ListPayloads == {[type |-> "list", data |-> Absent, rows |-> Absent, extra |-> FALSE, elems |-> l] :
                    l \in ItemLists}
DictPayloads == {[type |-> "dict", data |-> d, rows |-> r, extra |-> e, elems |-> <<>>] :
                    d \in OptItemLists, r \in OptItemLists, e \in BOOLEAN}
Bodies == {NotJson} \cup ListPayloads \cup DictPayloads

\* A rendered page, as far as the table parsers see it.
PageRowIds == {"r1"}
Pages == [table : BOOLEAN, rows : SeqsUpTo(PageRowIds, MaxRows)]

\* Result of a call as its caller sees it.
NoResult      == [kind |-> "none",  rows |-> <<>>, err |-> ""]
RowsResult(r) == [kind |-> "rows",  rows |-> r,    err |-> ""]
RaiseResult(e) == [kind |-> "raise", rows |-> <<>>, err |-> e]
ObjResult(tag) == [kind |-> "obj",   rows |-> <<>>, err |-> tag]

VARIABLES
    USE_SELENIUM_FALLBACK,  \* scraper.py:40, read once at import
    PLAYWRIGHT_AVAILABLE,   \* scraper.py:18-22, set once at import
    cat,         \* cat[c]: the category function call c runs
    pc,          \* pc[c]: position of the calling thread
    httpLog,     \* httpLog[c]: GETs of the call's requests session, in order
    apiOut,      \* apiOut[c]: what _fetch_<category>_api gave the orchestrator
    browser,     \* browser[c]: "none" | "live" | "closed"
    browserLog,  \* browserLog[c]: driver / playwright steps of the call, in order
    result,      \* result[c]: what the call returned or raised
    wpc,         \* wpc[c]: position of the call's worker thread
    queue,       \* queue[c]: the call's result_queue
    loop,        \* loop[c]: the event loop of the call's worker thread (0: none)
    fnCall,      \* a helper function applied on its own: the function and its arguments
    fnRet        \* what that application returned or raised

vars == <<USE_SELENIUM_FALLBACK, PLAYWRIGHT_AVAILABLE, cat, pc, httpLog, apiOut,
          browser, browserLog, result, wpc, queue, loop, fnCall, fnRet>>

config == <<USE_SELENIUM_FALLBACK, PLAYWRIGHT_AVAILABLE>>
fnVars == <<fnCall, fnRet>>

\* ------------------------------------------------------------- Tier 1: API
\* One GET of the session as a mock would record it: the URL, how it was
\* answered and, when the answer was a JSON array, that and its elements.
Get(url, ans) == [url |-> url, ans |-> ans, array |-> FALSE, elems |-> <<>>]
GetJson(url, ans, body) ==
    [url |-> url, ans |-> ans,
     array |-> (ans = "ok" /\ body.type = "list"),
     elems |-> IF ans = "ok" THEN body.elems ELSE <<>>]

\* What a function gave its caller: rows it returned, or an exception.
Returned(rows) == [st |-> "returned", rows |-> rows]
Raises         == [st |-> "raised",   rows |-> <<>>]
Pending        == [st |-> "pending",  rows |-> <<>>]

\* Mutant: a blocked priming GET is answered by one re-prime.
_init_nse_session_reprime(primeAns) ==
    [gets |-> IF primeAns = "blocked"
                THEN <<Get("base", primeAns), Get("base", primeAns)>>
                ELSE <<Get("base", primeAns)>>,
     ok |-> (primeAns = "ok")]

\* Mutant: the priming failure is swallowed and the session returned.
_init_nse_session_swallow(primeAns) ==
    [gets |-> <<Get("base", primeAns)>>, ok |-> TRUE]

\* _init_nse_session (scraper.py:99-115): a new session, one priming GET of
\* the base URL, raise_for_status(), then the session is returned.
\* ok = TRUE: the session came back; ok = FALSE: the function raised.
_init_nse_session(primeAns) ==
    [gets |-> <<Get("base", primeAns)>>, ok |-> (primeAns = "ok")]

\* Python truth value of payload.get(key): None and [] are falsy.
Truthy(v) == v # Absent /\ v # <<>>

\* items = payload.get("data") or payload.get("rows") or payload or []
\* (scraper.py:135, 163, 193, 572).  A JSON array has no .get (AttributeError);
\* a non-empty dict used as items iterates over its keys, which are strings.
ItemsOf(body) ==
    IF body.type = "notjson" THEN Raises            \* resp.json() raises
    ELSE IF body.type = "list" THEN Raises          \* list.get: AttributeError
    ELSE IF Truthy(body.data) THEN Returned(body.data)
    ELSE IF Truthy(body.rows) THEN Returned(body.rows)
    ELSE IF body.data # Absent \/ body.rows # Absent \/ body.extra
         THEN Returned(<<NonDict>>)                 \* the dict itself: its keys
    ELSE Returned(<<>>)

\* One output record of the API tier: the dict built from _pick calls.
Normalize(k, item) == [src |-> "api", cat |-> k, id |-> item]

\* for item in items: rows.append({... _pick(item, ...) ...}); item.get raises
\* AttributeError on an item that is not a dict.
MapItems(k, items) ==
    IF items.st = "raised" THEN Raises
    ELSE IF \E i \in 1..Len(items.rows) : items.rows[i] = NonDict THEN Raises
    ELSE Returned([i \in 1..Len(items.rows) |-> Normalize(k, items.rows[i])])

\* The part of _fetch_<category>_api after priming: the API GET,
\* raise_for_status(), resp.json(), the item loop.
ApiRequest(k, apiAns, body) ==
    [gets |-> <<GetJson("api", apiAns, body)>>,
     out  |-> IF apiAns # "ok" THEN Raises ELSE MapItems(k, ItemsOf(body))]

\* _fetch_announcements_api wraps that part in try/except and returns []
\* (scraper.py:564-589); the other three let the exception out.
Swallow(k, out) ==
    IF k = "Announcements" /\ out.st = "raised" THEN Returned(<<>>) ELSE out

\* Mutant: the API GET goes out before the session is primed.
_fetch_api_unprimed(k, primeAns, apiAns, body) ==
    [gets |-> <<Get("api", apiAns), Get("base", primeAns)>>,
     out  |-> IF primeAns # "ok" THEN Raises
              ELSE Swallow(k, ApiRequest(k, apiAns, body).out)]

\* _fetch_<category>_api(symbol) as a whole (scraper.py:126-209, 559-589).
_fetch_api(k, primeAns, apiAns, body) ==
    LET s == _init_nse_session(primeAns)
        r == ApiRequest(k, apiAns, body)
    IN IF ~s.ok THEN [gets |-> s.gets, out |-> Raises]
       ELSE [gets |-> s.gets \o r.gets, out |-> Swallow(k, r.out)]

\* Mutant: the rows of the API tier are never returned early.
ApiTierWins_never(out) == FALSE

\* try: rows = _fetch(...); if rows: return rows / except Exception: pass
\* (scraper.py:470-475, 501-506, 533-538, 599-606)
ApiTierWins(out) == out.st = "returned" /\ out.rows # <<>>


\* Mutant: the configuration flag is not consulted.
FallbackGate_ignored(enabled) == "build_driver"

\* if not USE_SELENIUM_FALLBACK: raise RuntimeError(...) (scraper.py:477-478)
FallbackGate(enabled) == IF enabled THEN "build_driver" ELSE "raise"

\* Mutant: the try around the API tier has no except clause.
AfterApi_propagate(out, enabled) ==
    IF out.st = "raised" THEN "propagate"
    ELSE IF ApiTierWins(out) THEN "return" ELSE FallbackGate(enabled)

\* What get_<list category>_for_symbol does with the API tier's outcome
\* (scraper.py:469-478): "return" the rows, go on to "build_driver", "raise"
\* the RuntimeError.  except Exception: pass lets no exception of the tier
\* out ("propagate" is what a handler without it would do).
AfterApi(out, enabled) ==
    IF ApiTierWins(out) THEN "return" ELSE FallbackGate(enabled)

\* Mutant: a browser failure is caught and turned into "no data".
BrowserFailure_swallowed(e) == RowsResult(<<>>)

\* An exception of _build_driver or of a driver step: the function has
\* try/finally and no except, so the exception leaves it
\* (scraper.py:480-492).
BrowserFailure(e) == RaiseResult(e)

\* --------------------------------------------------- Tier 3: browser render
\* _parse_<category>_table(html) (scraper.py:212-460), as far as the
\* orchestrator depends on it: no table, no records; else one record per row.
ParseTable(k, page) ==
    IF ~page.table THEN <<>>
    ELSE [i \in 1..Len(page.rows) |-> [src |-> "page", cat |-> k, id |-> page.rows[i]]]

\* The wait between driver.get(url) and driver.page_source.
\* EventCalendar, BoardMeetings, CorporateActions: one wait.until by ID, whose
\* TimeoutException is not caught (scraper.py:486-487, 518-519, 550-551).
\* Announcements: three strategies, each in its own try/except
\* (scraper.py:621-661).  s1, s2, s3: whether each strategy would succeed.
WaitSteps(k, s1, s2, s3) ==
    IF k # "Announcements" THEN <<"wait_id">>
    ELSE <<"wait_id">> \o (IF s1 THEN <<>> ELSE <<"wait_css">>)
                       \o (IF s1 \/ s2 THEN <<>> ELSE <<"wait_rows">>)

WaitRaises(k, s1) == k # "Announcements" /\ ~s1

\* ------------------------------------------------------------------- state
\* No helper function is under test; nothing was returned.
NoFn  == [fn |-> "none"]
NoRet == [st |-> "none"]

\* No call has been made yet.
InitCalls ==
    /\ cat = [c \in Calls |-> NoCat]
    /\ pc = [c \in Calls |-> "idle"]
    /\ httpLog = [c \in Calls |-> <<>>]
    /\ apiOut = [c \in Calls |-> Pending]
    /\ browser = [c \in Calls |-> "none"]
    /\ browserLog = [c \in Calls |-> <<>>]
    /\ result = [c \in Calls |-> NoResult]
    /\ wpc = [c \in Calls |-> "none"]
    /\ queue = [c \in Calls |-> <<>>]
    /\ loop = [c \in Calls |-> 0]

Init ==
    /\ USE_SELENIUM_FALLBACK \in BOOLEAN
    /\ PLAYWRIGHT_AVAILABLE \in BOOLEAN
    /\ InitCalls
    /\ fnCall = NoFn
    /\ fnRet = NoRet

\* Mutant: the result is kept in a module-level variable all threads write.
Finish_shared(c, r) ==
    /\ result' = [d \in Calls |-> r]
    /\ pc' = [pc EXCEPT ![c] = "done"]

\* The call ends: it returns or raises r.
Finish(c, r) ==
    /\ result' = [result EXCEPT ![c] = r]
    /\ pc' = [pc EXCEPT ![c] = "done"]

Log(c, steps) == browserLog' = [browserLog EXCEPT ![c] = @ \o steps]

\* An endpoint of app.py calls the category function (app.py:54, 101, 152,
\* 201, 261, 336).
Request(c, k) ==
    /\ pc[c] = "idle"
    /\ cat' = [cat EXCEPT ![c] = k]
    /\ pc' = [pc EXCEPT ![c] = IF k \in ListCategories THEN "api" ELSE "spawn"]
    /\ UNCHANGED <<config, fnVars, loop, httpLog, apiOut, browser, browserLog, result, wpc, queue>>

\* An answer the call never asks for is not drawn: no API answer after a
\* failed priming GET, no body after a failed API GET.
Asked(primeAns, apiAns, body) ==
    /\ primeAns # "ok" => apiAns = "ok"
    /\ (primeAns # "ok" \/ apiAns # "ok") => body = NotJson

\* get_<list category>_for_symbol up to the call of _build_driver
\* (scraper.py:467-478, 499-509, 531-541, 596-609).
ApiTier(c) ==
    /\ pc[c] = "api"
    /\ \E primeAns \in HttpAnswers, apiAns \in HttpAnswers, body \in Bodies :
         LET f == _fetch_api(cat[c], primeAns, apiAns, body)
         IN /\ Asked(primeAns, apiAns, body)
            /\ httpLog' = [httpLog EXCEPT ![c] = @ \o f.gets]
            /\ apiOut' = [apiOut EXCEPT ![c] = f.out]
            /\ CASE AfterApi(f.out, USE_SELENIUM_FALLBACK) = "return" ->
                      Finish(c, RowsResult(f.out.rows))
                 [] AfterApi(f.out, USE_SELENIUM_FALLBACK) = "raise" ->
                      Finish(c, RaiseResult("RuntimeError"))
                 [] AfterApi(f.out, USE_SELENIUM_FALLBACK) = "propagate" ->
                      Finish(c, RaiseResult("ApiTierError"))
                 [] OTHER ->
                      /\ pc' = [pc EXCEPT ![c] = "build_driver"]
                      /\ UNCHANGED result
    /\ UNCHANGED <<config, fnVars, loop, cat, browser, browserLog, wpc, queue>>

\* driver = _build_driver(headless), outside the try (scraper.py:480, 511,
\* 543, 611): webdriver.Chrome(...) starts a browser or raises.
BuildDriver(c) ==
    /\ pc[c] = "build_driver"
    /\ \E started \in BOOLEAN :
         IF started
           THEN /\ browser' = [browser EXCEPT ![c] = "live"]
                /\ Log(c, <<"launch">>)
                /\ pc' = [pc EXCEPT ![c] = "get_base"]
                /\ UNCHANGED result
           ELSE /\ Log(c, <<"launch_failed">>)
                /\ Finish(c, BrowserFailure("WebDriverException"))
                /\ UNCHANGED browser
    /\ UNCHANGED <<config, fnVars, loop, cat, httpLog, apiOut, wpc, queue>>

\* Mutant: no finally clause; the driver is left running.
QuitWith_leak(c, steps, r) ==
    /\ Log(c, steps)
    /\ UNCHANGED browser
    /\ Finish(c, r)

\* finally: driver.quit() on the way out of the try (scraper.py:491-492,
\* 523-524, 555-556, 666-667).
QuitWith(c, steps, r) ==
    /\ Log(c, steps \o <<"quit">>)
    /\ browser' = [browser EXCEPT ![c] = "closed"]
    /\ Finish(c, r)

\* Mutant: the category URL is loaded without the root page before it.
DriverGetBase_skipped(c) ==
    /\ pc[c] = "get_base"
    /\ pc' = [pc EXCEPT ![c] = "get_page"]
    /\ UNCHANGED <<config, fnVars, loop, cat, httpLog, apiOut, wpc, queue, browser,
                   browserLog, result>>

\* driver.get(NSE_BASE_URL) (scraper.py:482, 513, 545, 614)
DriverGetBase(c) ==
    /\ pc[c] = "get_base"
    /\ \E loaded \in BOOLEAN :
         IF loaded
           THEN /\ Log(c, <<"get_base">>)
                /\ pc' = [pc EXCEPT ![c] = "get_page"]
                /\ UNCHANGED <<browser, result>>
           ELSE QuitWith(c, <<"get_base_failed">>, BrowserFailure("WebDriverException"))
    /\ UNCHANGED <<config, fnVars, loop, cat, httpLog, apiOut, wpc, queue>>

\* driver.get(f"{<CATEGORY>_URL}?symbol={symbol}") (scraper.py:484, 516, 548, 619)
DriverGetPage(c) ==
    /\ pc[c] = "get_page"
    /\ \E loaded \in BOOLEAN :
         IF loaded
           THEN /\ Log(c, <<"get_page">>)
                /\ pc' = [pc EXCEPT ![c] = "wait"]
                /\ UNCHANGED <<browser, result>>
           ELSE QuitWith(c, <<"get_page_failed">>, BrowserFailure("WebDriverException"))
    /\ UNCHANGED <<config, fnVars, loop, cat, httpLog, apiOut, wpc, queue>>

\* The wait for the table (scraper.py:486-487, 518-519, 550-551, 621-661).
WaitTable(c) ==
    /\ pc[c] = "wait"
    /\ \E s1 \in BOOLEAN, s2 \in BOOLEAN, s3 \in BOOLEAN :
         IF WaitRaises(cat[c], s1)
           THEN QuitWith(c, WaitSteps(cat[c], s1, s2, s3), BrowserFailure("TimeoutException"))
           ELSE /\ Log(c, WaitSteps(cat[c], s1, s2, s3))
                /\ pc' = [pc EXCEPT ![c] = "extract"]
                /\ UNCHANGED <<browser, result>>
    /\ UNCHANGED <<config, fnVars, loop, cat, httpLog, apiOut, wpc, queue>>

\* Mutant: an empty first extraction is followed by a scroll to the bottom and
\* a second extraction.
Extract_nudge(c) ==
    /\ pc[c] = "extract"
    /\ \/ \E page \in Pages, again \in Pages :
            IF ParseTable(cat[c], page) # <<>>
              THEN QuitWith(c, <<"page_source">>, RowsResult(ParseTable(cat[c], page)))
              ELSE QuitWith(c, <<"page_source", "scroll", "page_source">>,
                            RowsResult(ParseTable(cat[c], again)))
       \/ QuitWith(c, <<"page_source_failed">>, BrowserFailure("WebDriverException"))
    /\ UNCHANGED <<config, fnVars, loop, cat, httpLog, apiOut, wpc, queue>>

\* html = driver.page_source; return _parse_<category>_table(html)
\* (scraper.py:489-490, 521-522, 553-554, 663-665).  Reading page_source
\* from a browser that has died raises.
Extract(c) ==
    /\ pc[c] = "extract"
    /\ \/ \E page \in Pages :
            QuitWith(c, <<"page_source">>, RowsResult(ParseTable(cat[c], page)))
       \/ QuitWith(c, <<"page_source_failed">>, BrowserFailure("WebDriverException"))
    /\ UNCHANGED <<config, fnVars, loop, cat, httpLog, apiOut, wpc, queue>>

\* ------------------------------------- EquityQuote / FinancialResults worker
\* Steps of _scrape_equity_quote_async (scraper.py:852-934) and of
\* _scrape_financial_results_async (scraper.py:1094-1321) after the launch.
StepAfter(k, step) ==
    CASE step = "launch"     -> "goto"
      [] step = "goto"       -> IF k = "FinancialResults" THEN "find_input" ELSE "extract"
      [] step = "find_input" -> "interact"
      [] step = "interact"   -> "wait_table"
      [] step = "wait_table" -> "extract"
      [] OTHER               -> "exit"

AutomationSteps == {"goto", "find_input", "interact", "wait_table", "extract"}

\* What the worker's scrape coroutine can return from its last step: the
\* parsed object, or an error-valued object built by the parser.
ParsedValues == {"data", "error_obj"}

Put(c, v) == queue' = [queue EXCEPT ![c] = Append(@, v)]

\* get_equity_quote_for_symbol / get_financial_results_for_symbol up to
\* thread.start() (scraper.py:943-967, 1330-1352).
Spawn(c) ==
    /\ pc[c] = "spawn"
    /\ IF ~PLAYWRIGHT_AVAILABLE
         THEN /\ Finish(c, ObjResult("error_playwright_missing"))
              /\ UNCHANGED wpc
         ELSE /\ wpc' = [wpc EXCEPT ![c] = "launch"]
              /\ pc' = [pc EXCEPT ![c] = "join"]
              /\ UNCHANGED result
    /\ UNCHANGED <<config, fnVars, loop, cat, httpLog, apiOut, browser, browserLog, queue>>

\* Mutant: the worker's except clause puts nothing on the queue.
WorkerRaises_silent(c, steps) ==
    /\ Log(c, steps)
    /\ UNCHANGED queue
    /\ wpc' = [wpc EXCEPT ![c] = "exit"]

\* The worker raises out of run_until_complete: except Exception puts the
\* error object (scraper.py:959-960, 1346-1347).
WorkerRaises(c, steps) ==
    /\ Log(c, steps)
    /\ Put(c, "error_exc")
    /\ wpc' = [wpc EXCEPT ![c] = "exit"]

\* Mutant: the worker takes the process's current loop
\* (asyncio.get_event_loop()) in place of a new one.
NewEventLoop_shared(existing) == 1

\* asyncio.new_event_loop() (scraper.py:955, 1342): a loop object that is
\* none of the existing ones.
NewEventLoop(existing) ==
    CHOOSE i \in 1..NumCalls :
        /\ i \notin existing
        /\ \A j \in 1..NumCalls : j \notin existing => i <= j

\* The loops that exist: those of the workers that have not closed theirs.
Loops == {loop[d] : d \in Calls} \ {0}

\* The worker thread starts (scraper.py:953-957, 1340-1344): loop =
\* asyncio.new_event_loop(); asyncio.set_event_loop(loop);
\* loop.run_until_complete(...) up to browser = await p.chromium.launch(...)
\* and the context and page set-up (scraper.py:864-903, 1106-1139).
\* A set-up step that raises after the launch is outside the try: the
\* exception leaves the async with block, whose exit stops playwright and
\* with it the browser.
WLaunch(c) ==
    /\ wpc[c] = "launch"
    /\ loop' = [loop EXCEPT ![c] = NewEventLoop(Loops)]
    /\ \E outcome \in {"started", "setup_raises", "launch_raises"} :
         CASE outcome = "started" ->
                /\ browser' = [browser EXCEPT ![c] = "live"]
                /\ Log(c, <<"launch">>)
                /\ wpc' = [wpc EXCEPT ![c] = StepAfter(cat[c], "launch")]
                /\ UNCHANGED queue
           [] outcome = "setup_raises" ->
                /\ WorkerRaises(c, <<"launch", "setup_failed", "stop">>)
                /\ browser' = [browser EXCEPT ![c] = "closed"]
           [] outcome = "launch_raises" ->
                /\ WorkerRaises(c, <<"launch_failed">>)
                /\ UNCHANGED browser
    /\ UNCHANGED <<config, fnVars, cat, pc, httpLog, apiOut, result>>

\* One awaited automation step inside the try (page.goto, the input search,
\* the form interaction, the wait for the results table).  A step that
\* raises runs the except branch: context.close(), browser.close(), raise
\* (scraper.py:931-934, 1318-1321).  The input search that finds nothing
\* closes and returns an error object (scraper.py:1174-1177); a table that
\* never becomes visible is swallowed (scraper.py:1303-1308).
WStep(c) ==
    /\ wpc[c] \in AutomationSteps \ {"extract"}
    /\ \E outcome \in {"ok", "raises", "missing"} :
         CASE outcome = "ok" ->
                /\ Log(c, <<wpc[c]>>)
                /\ wpc' = [wpc EXCEPT ![c] = StepAfter(cat[c], wpc[c])]
                /\ UNCHANGED <<browser, queue>>
           [] outcome = "raises" ->
                /\ wpc[c] # "wait_table"
                /\ WorkerRaises(c, <<wpc[c] \o "_failed", "close">>)
                /\ browser' = [browser EXCEPT ![c] = "closed"]
           [] outcome = "missing" ->
                /\ wpc[c] \in {"find_input", "wait_table"}
                /\ IF wpc[c] = "find_input"
                     THEN /\ Log(c, <<"find_input_none", "close">>)
                          /\ browser' = [browser EXCEPT ![c] = "closed"]
                          /\ Put(c, "error_obj")
                          /\ wpc' = [wpc EXCEPT ![c] = "exit"]
                     ELSE /\ Log(c, <<"wait_table_timeout">>)
                          /\ wpc' = [wpc EXCEPT ![c] = StepAfter(cat[c], wpc[c])]
                          /\ UNCHANGED <<browser, queue>>
    /\ UNCHANGED <<config, fnVars, loop, cat, pc, httpLog, apiOut, result>>

\* html_content = await page.content(); parsed = parse(html_content);
\* close; return parsed; result_queue.put(result)
\* (scraper.py:923-929, 957-958, 1310-1316, 1344-1345).
WExtract(c) ==
    /\ wpc[c] = "extract"
    /\ browser' = [browser EXCEPT ![c] = "closed"]
    /\ \E raised \in BOOLEAN, v \in ParsedValues :
         IF raised
           THEN WorkerRaises(c, <<"content_failed", "close">>)
           ELSE /\ Log(c, <<"content", "close">>)
                /\ Put(c, v)
                /\ wpc' = [wpc EXCEPT ![c] = "exit"]
    /\ UNCHANGED <<config, fnVars, loop, cat, pc, httpLog, apiOut, result>>

\* finally: loop.close(); the thread ends (scraper.py:961-963, 1348-1349).
WExit(c) ==
    /\ wpc[c] = "exit"
    /\ wpc' = [wpc EXCEPT ![c] = "dead"]
    /\ loop' = [loop EXCEPT ![c] = 0]
    /\ UNCHANGED <<config, fnVars, cat, pc, httpLog, apiOut, browser, browserLog, result, queue>>

\* thread.join(timeout) came back and thread.is_alive() is False: the queue
\* decides (scraper.py:973-976, 1358-1361).
JoinReturn(c) ==
    /\ pc[c] = "join"
    /\ wpc[c] = "dead"
    /\ IF queue[c] = <<>>
         THEN /\ Finish(c, ObjResult("error_no_result"))
              /\ UNCHANGED queue
         ELSE /\ Finish(c, ObjResult(Head(queue[c])))
              /\ queue' = [queue EXCEPT ![c] = Tail(@)]
    /\ UNCHANGED <<config, fnVars, loop, cat, httpLog, apiOut, browser, browserLog, wpc>>

\* Mutant: the caller raises on a timeout.
JoinTimeout_raise(c) ==
    /\ pc[c] = "join"
    /\ wpc[c] # "dead"
    /\ Finish(c, RaiseResult("TimeoutError"))
    /\ UNCHANGED <<config, fnVars, loop, cat, httpLog, apiOut, browser, browserLog, wpc, queue>>

\* thread.join(timeout) came back with the thread still alive: the caller
\* returns the timeout error and does nothing else (scraper.py:968-971,
\* 1353-1356).
JoinTimeout(c) ==
    /\ pc[c] = "join"
    /\ wpc[c] # "dead"
    /\ Finish(c, ObjResult("error_timeout"))
    /\ UNCHANGED <<config, fnVars, loop, cat, httpLog, apiOut, browser, browserLog, wpc, queue>>

\* The endpoint builds its response from the result and returns
\* (app.py:55-71, 262-290): the call's locals (session, driver, queue,
\* thread) are dropped once the call is over and its worker thread has ended.
Respond(c) ==
    /\ pc[c] = "done"
    /\ wpc[c] \in {"none", "dead"}
    /\ cat' = [cat EXCEPT ![c] = NoCat]
    /\ pc' = [pc EXCEPT ![c] = "idle"]
    /\ httpLog' = [httpLog EXCEPT ![c] = <<>>]
    /\ apiOut' = [apiOut EXCEPT ![c] = Pending]
    /\ browser' = [browser EXCEPT ![c] = "none"]
    /\ browserLog' = [browserLog EXCEPT ![c] = <<>>]
    /\ result' = [result EXCEPT ![c] = NoResult]
    /\ wpc' = [wpc EXCEPT ![c] = "none"]
    /\ queue' = [queue EXCEPT ![c] = <<>>]
    /\ UNCHANGED <<config, fnVars, loop>>

\* Every step of a call other than its start.
Step(c) ==
    \/ ApiTier(c)
    \/ BuildDriver(c)
    \/ DriverGetBase(c)
    \/ DriverGetPage(c)
    \/ WaitTable(c)
    \/ Extract(c)
    \/ Spawn(c)
    \/ WLaunch(c)
    \/ WStep(c)
    \/ WExtract(c)
    \/ WExit(c)
    \/ JoinReturn(c)
    \/ JoinTimeout(c)
    \/ Respond(c)

\* The threaded server (app.py:376, threaded=True; a gunicorn worker pool):
\* a request may arrive while others are being served.
Next ==
    \E c \in Calls :
        \/ \E k \in Categories : Request(c, k)
        \/ Step(c)

Spec == Init /\ [][Next]_vars

\* One request at a time: a client, or a test, that calls the next category
\* function only after the previous call is over.
Quiet == \A c \in Calls : pc[c] = "idle"

NextSeq ==
    \E c \in Calls :
        \/ \E k \in Categories : Quiet /\ Request(c, k)
        \/ Step(c)

SpecSeq == Init /\ [][NextSeq]_vars

\* ==================================================== helper functions
\* The pure helpers of scraper.py applied on their own: fnCall holds the
\* function and its arguments, fnRet what the application gave.
MaxText == 2       \* longest JSON string / cell text
MaxKeys == 2       \* longest candidate-key list handed to _pick

\* Text is a sequence of characters; " " is the whitespace str.strip() removes.
Chars == {" ", "a"}
Texts == SeqsUpTo(Chars, MaxText)

\* JSON values of an item: null, a string, the number 0.
JNull   == [t |-> "null", s |-> <<>>]
JStr(s) == [t |-> "str",  s |-> s]
JZero   == [t |-> "num",  s |-> <<>>]
JValues == {JNull, JZero} \cup {JStr(s) : s \in Texts}

\* str(val): a string is itself, the number 0 is "0".
Str(val) == IF val.t = "num" THEN <<"0">> ELSE val.s

RECURSIVE LStrip(_)
LStrip(s) == IF s # <<>> /\ Head(s) = " " THEN LStrip(Tail(s)) ELSE s

RECURSIVE RStrip(_)
RStrip(s) ==
    IF s # <<>> /\ s[Len(s)] = " " THEN RStrip(SubSeq(s, 1, Len(s) - 1)) ELSE s

\* str.strip()
Strip(s) == RStrip(LStrip(s))

\* What a function gave: a value, or an exception.
Ret(v)   == [st |-> "returned", val |-> v]
Raise(e) == [st |-> "raised",   val |-> e]

\* item.get(key): None for a key the dict does not have.
ItemGet(item, key) == IF key \in DOMAIN item THEN item[key] ELSE JNull

\* Mutant: the last candidate with a value wins.
RECURSIVE _pick_last(_, _, _)
_pick_last(item, keys, default) ==
    IF keys = <<>> THEN Ret(default)
    ELSE LET val == ItemGet(item, keys[Len(keys)])
         IN IF val # JNull /\ val # JStr(<<>>) THEN Ret(Strip(Str(val)))
            ELSE _pick_last(item, SubSeq(keys, 1, Len(keys) - 1), default)

\* Mutant: item[key] in place of item.get(key).
RECURSIVE _pick_subscript(_, _, _)
_pick_subscript(item, keys, default) ==
    IF keys = <<>> THEN Ret(default)
    ELSE IF Head(keys) \notin DOMAIN item THEN Raise("KeyError")
    ELSE LET val == item[Head(keys)]
         IN IF val # JNull /\ val # JStr(<<>>) THEN Ret(Strip(Str(val)))
            ELSE _pick_subscript(item, Tail(keys), default)

\* _pick(item, keys, default) (scraper.py:118-123)
RECURSIVE _pick(_, _, _)
_pick(item, keys, default) ==
    IF keys = <<>> THEN Ret(default)
    ELSE LET val == ItemGet(item, Head(keys))
         IN IF val # JNull /\ val # JStr(<<>>) THEN Ret(Strip(Str(val)))
            ELSE _pick(item, Tail(keys), default)

\* Arguments _pick is tried on: dicts over two keys, every candidate list of
\* those keys, the two defaults the callers pass ("" and the symbol).
PickKeys  == {"k1", "k2"}
PickItems == UNION {[K -> JValues] : K \in SUBSET PickKeys}
PickCalls ==
    {[fn |-> "_pick", item |-> i, keys |-> ks, default |-> d] :
        i \in PickItems, ks \in SeqsUpTo(PickKeys, MaxKeys), d \in {<<>>, <<"a">>}}

Apply_pick ==
    /\ fnCall.fn = "_pick"
    /\ fnRet = NoRet
    /\ fnRet' = _pick(fnCall.item, fnCall.keys, fnCall.default)
    /\ UNCHANGED <<config, cat, pc, httpLog, apiOut, browser, browserLog, result,
                   wpc, queue, loop, fnCall>>

\* ----------------------------------------------- normalisation of an item
MaxPresent == 2    \* keys an item has (or lacks) out of a category's candidates

\* One output field: its name, its candidate keys in order, its default
\* ("arg": the symbol the caller asked for; "empty": "").
Field(f, keys, dflt) == [field |-> f, keys |-> keys, dflt |-> dflt]

\* The dict literal each _fetch_<category>_api builds per item
\* (scraper.py:138-150, 166-180, 196-208, 575-585).
Schema(k) ==
    CASE k = "CorporateActions" ->
           << Field("symbol", <<"symbol", "SYMBOL">>, "arg"),
              Field("company", <<"company", "comp", "companyName">>, "empty"),
              Field("series", <<"series">>, "empty"),
              Field("purpose", <<"subject", "purpose">>, "empty"),
              Field("face_value", <<"faceVal", "face_value">>, "empty"),
              Field("ex_date", <<"exDate", "ex_date">>, "empty"),
              Field("record_date", <<"recDate", "recordDate", "rec_date">>, "empty"),
              Field("book_closure_start", <<"bcStartDate", "bc_start_date">>, "empty"),
              Field("book_closure_end", <<"bcEndDate", "bc_end_date">>, "empty") >>
      [] k = "BoardMeetings" ->
           << Field("symbol", <<"symbol", "SYMBOL">>, "arg"),
              Field("company", <<"sm_name", "company", "companyName">>, "empty"),
              Field("purpose", <<"bm_purpose", "purpose", "subject">>, "empty"),
              Field("details_link", <<"detailsUrl", "details_link", "bm_details">>, "empty"),
              Field("meeting_date", <<"bm_date", "meetingDate", "meeting_date">>, "empty"),
              Field("attachment_link",
                    <<"attachment", "attachmentUrl", "pdfUrl", "xmlUrl">>, "empty"),
              Field("broadcast_datetime",
                    <<"bm_timestamp", "broadcastDateTime", "broadcast_time">>, "empty") >>
      [] k = "EventCalendar" ->
           << Field("symbol", <<"symbol", "SYMBOL">>, "arg"),
              Field("company", <<"company", "companyName", "sm_name">>, "empty"),
              Field("purpose", <<"purpose", "subject", "event">>, "empty"),
              Field("details",
                    <<"details", "description", "bmdesc", "eventDescription">>, "empty"),
              Field("date", <<"date", "eventDate", "bm_date">>, "empty") >>
      [] k = "Announcements" ->
           << Field("symbol", <<"symbol", "SYMBOL">>, "arg"),
              Field("company", <<"sm_name", "company", "companyName">>, "empty"),
              Field("subject", <<"desc", "subject", "purpose">>, "empty"),
              Field("details", <<"details", "description", "attchmntText">>, "empty"),
              Field("attachment_link",
                    <<"attachment", "attachmentUrl", "attchmntFile">>, "empty"),
              Field("xbrl_link", <<"xbrl", "xbrlUrl", "seq_id">>, "empty"),
              Field("broadcast_datetime",
                    <<"an_dt", "broadcastDateTime", "broadcast_datetime">>, "empty") >>

\* {"symbol": _pick(item, [...], symbol), "company": _pick(item, [...], ""), ...}
\* An exception of a _pick call leaves the dict literal unbuilt.
NormalizeRecord(k, symbol, item) ==
    LET sch == Schema(k)
        picked == [i \in 1..Len(sch) |->
                      _pick(item, sch[i].keys,
                            IF sch[i].dflt = "arg" THEN symbol ELSE <<>>)]
    IN IF \E i \in 1..Len(sch) : picked[i].st = "raised"
         THEN Raise("KeyError")
         ELSE Ret([f \in {sch[i].field : i \in 1..Len(sch)} |->
                      picked[CHOOSE i \in 1..Len(sch) : sch[i].field = f].val])

\* Every key some field of the category looks for.
CandidateKeys(k) ==
    UNION {{Schema(k)[i].keys[j] : j \in 1..Len(Schema(k)[i].keys)} :
              i \in 1..Len(Schema(k))}

RECURSIVE SubsetsUpTo(_, _)
SubsetsUpTo(S, n) ==
    IF n = 0 THEN {{}}
    ELSE LET P == SubsetsUpTo(S, n - 1) IN P \cup {p \cup {x} : p \in P, x \in S}

\* Raw items of a category: dicts that have at most MaxPresent of the
\* candidate keys, or lack at most MaxPresent of them; the keys they have all
\* carry null, "" or the same text.
NormValues == {JNull, JStr(<<>>), JStr(<<" ", "a">>)}
RawItems(k) ==
    LET few == SubsetsUpTo(CandidateKeys(k), MaxPresent)
        present == few \cup {CandidateKeys(k) \ K : K \in few}
    IN UNION {{[key \in K |-> v] : v \in NormValues} : K \in present}

SymbolArg == <<"a", "a">>

NormalizeCalls ==
    UNION {{[fn |-> "normalize", cat |-> k, symbol |-> SymbolArg, item |-> i] :
               i \in RawItems(k)} : k \in ListCategories}

Apply_normalize ==
    /\ fnCall.fn = "normalize"
    /\ fnRet = NoRet
    /\ fnRet' = NormalizeRecord(fnCall.cat, fnCall.symbol, fnCall.item)
    /\ UNCHANGED <<config, cat, pc, httpLog, apiOut, browser, browserLog, result,
                   wpc, queue, loop, fnCall>>

\* ------------------------------------------------------- table parsers
MaxTableRows == 2  \* most rows in the body of a parsed table
MaxExtra == 1      \* most cells a row has beyond its category's minimum

\* len(tds) < n: continue (scraper.py:229, 289, 349, 408)
MinCellsEventCalendar == 4
MinCellsBoardMeetings == 7
MinCellsCorporateActions == 9
MinCellsAnnouncements == 7

MinCells(k) ==
    CASE k = "EventCalendar" -> MinCellsEventCalendar
      [] k = "BoardMeetings" -> MinCellsBoardMeetings
      [] k = "CorporateActions" -> MinCellsCorporateActions
      [] k = "Announcements" -> MinCellsAnnouncements

\* soup.find("table", id=...) (scraper.py:218, 278, 338, 390) and the two
\* fallbacks of the announcements parser (scraper.py:393-395).  A document
\* carries at most one table; "annc_class" is a table without one of these
\* ids whose class contains "annc".
TableMarks == {"none", "CFeventCalendarTable", "CFboardmeetingEquityTable",
               "CFcorpactionsEquityTable", "CFanncEquityTable", "CFanncEquity",
               "annc_class"}

TargetMarks(k) ==
    CASE k = "EventCalendar" -> {"CFeventCalendarTable"}
      [] k = "BoardMeetings" -> {"CFboardmeetingEquityTable"}
      [] k = "CorporateActions" -> {"CFcorpactionsEquityTable"}
      [] k = "Announcements" -> {"CFanncEquityTable", "CFanncEquity", "annc_class"}

\* The nodes inside a <td>, in document order: text, an <a> (with or without
\* href), a <span class="content">.  NoHref: the anchor has no href attribute.
NoHref == <<"NoHref">>
TextNode(s)    == [tag |-> "text", s |-> s, href |-> NoHref]
Anchor(h, s)   == [tag |-> "a",    s |-> s, href |-> h]
ContentSpan(s) == [tag |-> "span", s |-> s, href |-> NoHref]

\* A <td>: its nodes and its two data attributes (Absent: not set).
Td(nodes, prev, col) == [nodes |-> nodes, prev |-> prev, col |-> col]

\* Distinct text, href and attribute values for the cell at index i (from 0).
Tok(i)  == <<"c0", "c1", "c2", "c3", "c4", "c5", "c6", "c7", "c8", "c9", "c10",
             "c11", "c12">>[i + 1]
HrefAt(i) == <<"/h", Tok(i)>>

CellKinds == {"plain", "link", "second", "nohref", "mixed", "empty", "span", "col",
              "prev", "blankcol", "colspan", "wscol"}

\* The cell of each kind at index i.
CellOf(kind, i) ==
    CASE kind = "plain"  -> Td(<<TextNode(<<" ", Tok(i), " ">>)>>, Absent, Absent)
      [] kind = "link"   -> Td(<<Anchor(HrefAt(i), <<" ", Tok(i)>>)>>, Absent, Absent)
      [] kind = "second" -> Td(<<Anchor(<<"/g", Tok(i)>>, <<"y", Tok(i)>>)>>, Absent, Absent)
      [] kind = "nohref" -> Td(<<Anchor(NoHref, <<Tok(i)>>)>>, Absent, Absent)
      [] kind = "mixed"  -> Td(<<Anchor(HrefAt(i), <<Tok(i), " ">>), TextNode(<<" ", "x">>)>>,
                               Absent, Absent)
      [] kind = "empty"  -> Td(<<>>, Absent, Absent)
      [] kind = "span"   -> Td(<<TextNode(<<"x">>), ContentSpan(<<" ", Tok(i), " ">>)>>,
                               Absent, Absent)
      [] kind = "col"    -> Td(<<TextNode(<<"x">>)>>, Absent, <<" ", "full", Tok(i)>>)
      [] kind = "prev"   -> Td(<<TextNode(<<"x">>)>>, <<"prev", Tok(i), " ">>, <<"full", Tok(i)>>)
      [] kind = "blankcol" -> Td(<<ContentSpan(<<Tok(i)>>)>>, <<>>, <<>>)
      [] kind = "colspan" -> Td(<<TextNode(<<"x">>), ContentSpan(<<Tok(i)>>)>>,
                                Absent, <<" ", "full", Tok(i)>>)
      [] kind = "wscol"  -> Td(<<ContentSpan(<<Tok(i)>>)>>, Absent, <<" ">>)

\* A <tr>: its <td> cells in order.
RowOf(kinds) == [i \in 1..Len(kinds) |-> CellOf(kinds[i], i - 1)]

\* Rows of n cells of one kind, but for at most one cell of another kind.
UniformRow(n, kind) == RowOf([i \in 1..n |-> kind])
RowsWithOneOdd(n) ==
    {RowOf([i \in 1..n |-> IF i = p THEN odd ELSE base]) :
        base \in {"plain", "link"}, odd \in CellKinds, p \in 1..n}

\* Numbers of cells around the category's minimum, and none.
CellCounts(k) == {0} \cup {n \in 1..(MinCells(k) + MaxExtra) : n >= MinCells(k) - 1}

SimpleRows(k) == {UniformRow(n, kind) : n \in CellCounts(k), kind \in {"plain", "second"}}

\* A parsed document: which table it has, whether the table has a <tbody>,
\* the <tr> rows of that body.
Doc(mark, tbody, rows) == [table |-> mark, tbody |-> tbody, rows |-> rows]

\* Documents a category's parser is tried on: no table of its own (any other
\* table, or none), a table without a body, a body of up to MaxTableRows rows
\* of varying length, and one-row bodies with every mix of cell kinds.
Docs(k) ==
    {Doc(m, b, <<>>) : m \in TableMarks, b \in BOOLEAN}
    \cup {Doc(m, TRUE, rows) : m \in TargetMarks(k),
                               rows \in SeqsUpTo(SimpleRows(k), MaxTableRows)}
    \cup {Doc(m, TRUE, <<r>>) : m \in TargetMarks(k),
                                r \in RowsWithOneOdd(MinCells(k))
                                      \cup RowsWithOneOdd(MinCells(k) + MaxExtra)}

\* tag.get_text(strip=True): the strings under the tag in document order,
\* each stripped, concatenated.
RECURSIVE GetText(_)
GetText(nodes) ==
    IF nodes = <<>> THEN <<>> ELSE Strip(Head(nodes).s) \o GetText(Tail(nodes))

\* cell.find("a"), cell.find("span", class_="content"): the first one, as a
\* sequence of at most one node.
FindAll(cell, tag) == SelectSeq(cell.nodes, LAMBDA n : n.tag = tag)
Find(cell, tag) == IF FindAll(cell, tag) = <<>> THEN <<>> ELSE <<Head(FindAll(cell, tag))>>

\* symbol_link.get_text(strip=True) if symbol_link else
\* symbol_cell.get_text(strip=True) (scraper.py:233-235, 293-295, 352-354,
\* 412-414)
SymbolRule(cell) ==
    IF Find(cell, "a") # <<>> THEN GetText(Find(cell, "a")) ELSE GetText(cell.nodes)

\* tds[i].get_text(strip=True)
TextRule(cell) == GetText(cell.nodes)

\* Mutant: the link text in place of the link target.
LinkRule_text(cell) ==
    IF Find(cell, "a") # <<>> THEN GetText(Find(cell, "a")) ELSE <<>>

\* anchor["href"] if anchor and anchor.has_attr("href") else ""
\* (scraper.py:304-306, 312-314, 436-438, 441-443)
LinkRule(cell) ==
    IF Find(cell, "a") # <<>> /\ Find(cell, "a")[1].href # NoHref
      THEN Find(cell, "a")[1].href
      ELSE <<>>

\* Mutant: the span of class "content" before the data attribute.
RichRule_span(cell) ==
    LET full_desc_attr == IF Truthy(cell.prev) THEN cell.prev ELSE cell.col
    IN IF Find(cell, "span") # <<>> THEN GetText(Find(cell, "span"))
       ELSE IF Truthy(full_desc_attr) THEN Strip(full_desc_attr)
       ELSE GetText(cell.nodes)

\* The details column (scraper.py:244-254, 423-433): a data attribute with the
\* full text, else the span of class "content", else the cell's text.
RichRule(cell) ==
    LET full_desc_attr == IF Truthy(cell.prev) THEN cell.prev ELSE cell.col
    IN IF Truthy(full_desc_attr) THEN Strip(full_desc_attr)
       ELSE IF Find(cell, "span") # <<>> THEN GetText(Find(cell, "span"))
       ELSE GetText(cell.nodes)

\* One column of a parser: the field, the rule, the index of the cell.
Column(f, rule, idx) == [field |-> f, rule |-> rule, idx |-> idx]

\* The columns each parser reads (scraper.py:232-268, 292-328, 352-376,
\* 411-457).
EventCalendarColumns ==
    << Column("symbol", "symbol", 0), Column("company", "text", 1),
       Column("purpose", "text", 2), Column("details", "rich", 3),
       Column("date", "opt_text", 4) >>

BoardMeetingsColumns ==
    << Column("symbol", "symbol", 0), Column("company", "text", 1),
       Column("purpose", "text", 2), Column("details_link", "link", 3),
       Column("meeting_date", "text", 4), Column("attachment_link", "link", 5),
       Column("broadcast_datetime", "text", 6) >>

CorporateActionsColumns ==
    << Column("symbol", "symbol", 0), Column("company", "text", 1),
       Column("series", "text", 2), Column("purpose", "text", 3),
       Column("face_value", "text", 4), Column("ex_date", "text", 5),
       Column("record_date", "text", 6), Column("book_closure_start", "text", 7),
       Column("book_closure_end", "text", 8) >>

AnnouncementsColumns ==
    << Column("symbol", "symbol", 0), Column("company", "text", 1),
       Column("subject", "text", 2), Column("details", "rich", 3),
       Column("attachment_link", "link", 4), Column("xbrl_link", "link", 5),
       Column("broadcast_datetime", "text", 6) >>

\* Mutant: in the corporate actions parser ex_date and record_date read each
\* other's cell.
Columns_swapped(k) ==
    CASE k = "EventCalendar" -> EventCalendarColumns
      [] k = "BoardMeetings" -> BoardMeetingsColumns
      [] k = "CorporateActions" ->
           [i \in 1..Len(CorporateActionsColumns) |->
               IF CorporateActionsColumns[i].field = "ex_date"
                 THEN Column("ex_date", "text", 6)
               ELSE IF CorporateActionsColumns[i].field = "record_date"
                 THEN Column("record_date", "text", 5)
               ELSE CorporateActionsColumns[i]]
      [] k = "Announcements" -> AnnouncementsColumns

Columns(k) ==
    CASE k = "EventCalendar" -> EventCalendarColumns
      [] k = "BoardMeetings" -> BoardMeetingsColumns
      [] k = "CorporateActions" -> CorporateActionsColumns
      [] k = "Announcements" -> AnnouncementsColumns

\* tds is indexed from 0, a TLA+ sequence from 1.
ApplyRule(col, tds) ==
    CASE col.rule = "symbol" -> SymbolRule(tds[col.idx + 1])
      [] col.rule = "text" -> TextRule(tds[col.idx + 1])
      [] col.rule = "link" -> LinkRule(tds[col.idx + 1])
      [] col.rule = "rich" -> RichRule(tds[col.idx + 1])
      [] col.rule = "opt_text" ->
           IF Len(tds) >= col.idx + 1 THEN TextRule(tds[col.idx + 1]) ELSE <<>>

\* The dict appended for one <tr>.
ExtractRow(k, tds) ==
    LET cols == Columns(k)
    IN [f \in {cols[i].field : i \in 1..Len(cols)} |->
           ApplyRule(cols[CHOOSE i \in 1..Len(cols) : cols[i].field = f], tds)]

\* Mutant: a row of exactly the minimum number of cells is skipped too.
EnoughCells_strict(k, tds) == ~(Len(tds) <= MinCells(k))

\* if len(tds) < n: continue
EnoughCells(k, tds) == ~(Len(tds) < MinCells(k))

\* Mutant: no test for a missing <tbody>; None.find_all raises.
_parse_table_nobody(k, doc) ==
    IF doc.table \notin TargetMarks(k) THEN Ret(<<>>)
    ELSE IF ~doc.tbody THEN Raise("AttributeError")
    ELSE LET trs == SelectSeq(doc.rows, LAMBDA tds : EnoughCells(k, tds))
         IN Ret([i \in 1..Len(trs) |-> ExtractRow(k, trs[i])])

\* _parse_event_calendar_table, _parse_board_meetings_table,
\* _parse_corporate_actions_table, _parse_announcements_table
\* (scraper.py:212-460).
_parse_table(k, doc) ==
    IF doc.table \notin TargetMarks(k) THEN Ret(<<>>)
    ELSE IF ~doc.tbody THEN Ret(<<>>)
    ELSE LET trs == SelectSeq(doc.rows, LAMBDA tds : EnoughCells(k, tds))
         IN Ret([i \in 1..Len(trs) |-> ExtractRow(k, trs[i])])

ParseCalls ==
    UNION {{[fn |-> "parse_table", cat |-> k, doc |-> d] : d \in Docs(k)} :
              k \in ListCategories}

Apply_parse_table ==
    /\ fnCall.fn = "parse_table"
    /\ fnRet = NoRet
    /\ fnRet' = _parse_table(fnCall.cat, fnCall.doc)
    /\ UNCHANGED <<config, cat, pc, httpLog, apiOut, browser, browserLog, result,
                   wpc, queue, loop, fnCall>>

\* ------------------------------------------ symbols and returned dicts
\* The symbol query parameter as the client sends it: letters of either case
\* and whitespace.
SymbolChars == {" ", "a", "A"}
RawSymbols == SeqsUpTo(SymbolChars, MaxText)

\* str.upper()
Upper(s) ==
    [i \in 1..Len(s) |-> IF s[i] = "a" THEN "A" ELSE IF s[i] = "b" THEN "B" ELSE s[i]]

\* A dict returned by get_equity_quote_for_symbol or
\* get_financial_results_for_symbol: the keys it has and the values of
\* "error", "status" and "message" ("" when the key is not there).
Dict(keys, error, status, message) ==
    [keys |-> keys, error |-> error, status |-> status, message |-> message,
     sections |-> <<>>, returns |-> {}]

\* The messages of the error dicts (scraper.py:692, 944, 960, 971, 974, 978,
\* 1003-1041, 1177, 1331, 1347, 1356, 1359, 1363).
ErrorMessages == {"not installed", "timeout", "no result", "exception", "not found"}

\* ---------------------------------------------- the equity quote parser
\* The rendered quote page as _parse_nse_quote_html reads it: whether it has
\* <main id="midBody">, <span class="symbol-text"> and
\* <div class="index-highlight">, and the statement of the try block, if any,
\* that raises while the page is read.
QuoteFaults == {"none", "find_main", "body_text", "symbol", "last_price", "scan_returns"}
MaxFragments == 2   \* most text fragments with a percent sign on the page

\* The period labels of the returns scan, in the order of the loop
\* (scraper.py:839), and the characters of each.
Periods == <<"YTD", "1M", "3M", "6M", "1Y", "3Y", "5Y", "10Y", "15Y", "20Y", "25Y", "30Y">>
PeriodText(period) ==
    CASE period = "YTD" -> <<"Y", "T", "D">>
      [] period = "1M"  -> <<"1", "M">>
      [] period = "3M"  -> <<"3", "M">>
      [] period = "6M"  -> <<"6", "M">>
      [] period = "1Y"  -> <<"1", "Y">>
      [] period = "3Y"  -> <<"3", "Y">>
      [] period = "5Y"  -> <<"5", "Y">>
      [] period = "10Y" -> <<"1", "0", "Y">>
      [] period = "15Y" -> <<"1", "5", "Y">>
      [] period = "20Y" -> <<"2", "0", "Y">>
      [] period = "25Y" -> <<"2", "5", "Y">>
      [] period = "30Y" -> <<"3", "0", "Y">>
      [] period = "none" -> <<>>

\* An element of the page with one string in it: the element's tag, the
\* period label the page shows in it ("none": no label), what stands
\* between the label and the percentage, the percentage.  The parser reads
\* the tag and the text.
Fragment(tag, period, between, pct) ==
    [tag |-> tag, period |-> period, pct |-> pct,
     text |-> PeriodText(period) \o between \o pct]

\* The fragments of the model: "5Y 1%", "15Y2%", "25Y 9.5%", "1M 3%", "7%",
\* "5Y up 4%", and "5Y 8%" in a <script>.
Fragments ==
    { Fragment("td", "5Y", <<" ">>, <<"1", "%">>),
      Fragment("td", "15Y", <<>>, <<"2", "%">>),
      Fragment("span", "25Y", <<" ">>, <<"9", ".", "5", "%">>),
      Fragment("td", "1M", <<" ">>, <<"3", "%">>),
      Fragment("td", "none", <<>>, <<"7", "%">>),
      Fragment("td", "5Y", <<" ", "u", "p", " ">>, <<"4", "%">>),
      Fragment("script", "5Y", <<" ">>, <<"8", "%">>) }

\* Pages: the fragments vary on pages that are read to the end.
QuotePages ==
    {p \in [main : BOOLEAN, symbol : BOOLEAN, price : BOOLEAN, fault : QuoteFaults,
            fragments : SeqsUpTo(Fragments, MaxFragments)] :
        p.fragments # <<>> => (p.main /\ p.symbol /\ p.price /\ p.fault = "none")}

\* The characters of [0-9.]
NumChars == {"0", "1", "2", "3", "4", "5", "6", "7", "8", "9", "."}

\* The end of the longest run of characters of S in text from position i on
\* (i - 1: no such character at i).
RECURSIVE RunEnd(_, _, _)
RunEnd(text, i, S) ==
    IF i <= Len(text) /\ text[i] \in S THEN RunEnd(text, i + 1, S) ELSE i - 1

\* re.search(period + r'\s*([0-9.]+%)', text): group 1 of the leftmost match,
\* Absent when there is none.
PeriodMatch(period, text) ==
    LET pat == PeriodText(period)
        NumStart(i) == RunEnd(text, i + Len(pat), {" "}) + 1
        NumEnd(i) == RunEnd(text, NumStart(i), NumChars)
        Hit(i) == /\ i + Len(pat) - 1 <= Len(text)
                  /\ SubSeq(text, i, i + Len(pat) - 1) = pat
                  /\ NumEnd(i) >= NumStart(i)
                  /\ NumEnd(i) < Len(text)
                  /\ text[NumEnd(i) + 1] = "%"
        hits == {i \in 1..Len(text) : Hit(i)}
    IN IF hits = {} THEN Absent
       ELSE LET i == CHOOSE h \in hits : \A g \in hits : h <= g
            IN SubSeq(text, NumStart(i), NumEnd(i) + 1)

\* data['returns'][period] = value
SetReturn(returns, period, value) == {e \in returns : e[1] # period} \cup {<<period, value>>}

\* if period in parent_text (scraper.py:840)
InText(period, text) ==
    \E i \in 1..Len(text) :
        /\ i + Len(PeriodText(period)) - 1 <= Len(text)
        /\ SubSeq(text, i, i + Len(PeriodText(period)) - 1) = PeriodText(period)

\* for period in [...] (scraper.py:839-843) on one fragment, from the i-th
\* period on.
RECURSIVE ScanPeriods(_, _, _)
ScanPeriods(returns, text, i) ==
    IF i > Len(Periods) THEN returns
    ELSE IF InText(Periods[i], Strip(text)) /\ PeriodMatch(Periods[i], Strip(text)) # Absent
      THEN ScanPeriods(SetReturn(returns, Periods[i], PeriodMatch(Periods[i], Strip(text))),
                       text, i + 1)
    ELSE ScanPeriods(returns, text, i + 1)

\* for text in percent_texts (scraper.py:831-843): strings with a percent
\* sign, shorter than 50 characters when stripped, not in <style> or
\* <script>.
RECURSIVE ScanReturns(_, _)
ScanReturns(returns, fragments) ==
    IF fragments = <<>> THEN returns
    ELSE LET f == Head(fragments)
         IN IF /\ \E i \in 1..Len(f.text) : f.text[i] = "%"
               /\ Len(Strip(f.text)) < 50
               /\ f.tag \notin {"style", "script"}
              THEN ScanReturns(ScanPeriods(returns, f.text, 1), Tail(fragments))
              ELSE ScanReturns(returns, Tail(fragments))

\* The statements of the try block in order (scraper.py:690, 694, 697-699,
\* 702-708, 830, 831-844); "returns" is the assignment data['returns'] = {}.
QuoteSteps == <<"find_main", "body_text", "symbol", "last_price", "returns", "scan_returns">>

StepIndex(s) == CHOOSE i \in 1..Len(QuoteSteps) : QuoteSteps[i] = s

\* The statement s was completed before the fault, if there was one.
Completed(page, s) ==
    page.fault = "none" \/ StepIndex(s) < StepIndex(page.fault)

\* except Exception as e: data['parse_error'] = str(e) (scraper.py:846-847):
\* the keys of data after the handler ran.
QuoteHandler(data) == data \cup {"parse_error"}

\* _parse_nse_quote_html(html_content) (scraper.py:683-849): the dict it
\* returns.
_parse_nse_quote_html(page) ==
    LET data == (IF page.symbol /\ Completed(page, "symbol") THEN {"symbol"} ELSE {})
                \cup (IF page.price /\ Completed(page, "last_price")
                        THEN {"last_price"} ELSE {})
                \cup (IF Completed(page, "returns") THEN {"returns"} ELSE {})
    IN IF page.fault = "find_main" THEN Dict(QuoteHandler({}), "", "", "")
       ELSE IF ~page.main THEN Dict({"error"}, "Main body not found", "", "")
       ELSE IF page.fault # "none" THEN Dict(QuoteHandler(data), "", "", "")
       ELSE [Dict(data, "", "", "") EXCEPT !.returns = ScanReturns({}, page.fragments)]

QuoteCalls == {[fn |-> "parse_quote", page |-> p] : p \in QuotePages}

Apply_parse_quote ==
    /\ fnCall.fn = "parse_quote"
    /\ fnRet = NoRet
    /\ fnRet' = Ret(_parse_nse_quote_html(fnCall.page))
    /\ UNCHANGED <<config, cat, pc, httpLog, apiOut, browser, browserLog, result,
                   wpc, queue, loop, fnCall>>

\* ------------------------------------------ the financial results parser
MaxResultRows == 4   \* most <tr> rows in the body of the results table

\* if not rows or len(rows) < 3 (scraper.py:1038)
MinResultRows == 3

\* A <tr> of the body: whether it has a <td class="sectionCol"> (its first
\* cell), the texts of its <td> cells, whether its markup has text-bold or
\* highlightRow.
ResultRow(sectionCol, cells, bold) == [sectionCol |-> sectionCol, cells |-> cells, bold |-> bold]

\* The rows of the model, with distinct texts by index i (from 0): a section
\* divider, a divider with further cells, a line item, a total line, a row of
\* one cell.
ResultRowKinds == {"divider", "wide", "item", "total", "single"}
ResultRowOf(kind, i) ==
    CASE kind = "divider" -> ResultRow(TRUE, <<<<" ", Tok(i), " ">>>>, FALSE)
      [] kind = "wide"    -> ResultRow(TRUE, <<<<Tok(i)>>, <<"7">>>>, TRUE)
      [] kind = "item"    -> ResultRow(FALSE, <<<<" ", Tok(i)>>, <<" ", "7">>, <<"-">>>>, FALSE)
      [] kind = "total"   -> ResultRow(FALSE, <<<<Tok(i)>>, <<>>, <<"7", " ">>>>, TRUE)
      [] kind = "single"  -> ResultRow(FALSE, <<<<Tok(i)>>>>, FALSE)

\* The bodies the parser is tried on: up to MaxResultRows rows of every kind.
ResultBodies ==
    {[i \in 1..Len(kinds) |-> ResultRowOf(kinds[i], i - 1)] :
        kinds \in SeqsUpTo(ResultRowKinds, MaxResultRows)}

\* The rendered results page as _parse_financial_results reads it: whether
\* it has <p class="line1"> with two spans, <div id="resultsCompare">, a
\* <table class="common_table"> in it, the table's <thead> and <tbody>, and
\* the rows of the body.
PagesOver(bodies) ==
    {p \in [line1 : BOOLEAN, container : BOOLEAN, table : BOOLEAN, thead : BOOLEAN,
            tbody : {FALSE}, rows : {<<>>}] :
        /\ p.table => p.container
        /\ p.thead => p.table}
    \cup [line1 : BOOLEAN, container : {TRUE}, table : {TRUE}, thead : BOOLEAN,
          tbody : {TRUE}, rows : bodies]
ResultsPages == PagesOver(ResultBodies)

\* value_text = cell.get_text(strip=True); '-' and '' become None
\* (scraper.py:1064-1066)
ValueOf(cell) == IF Strip(cell) \in {<<"-">>, <<>>} THEN Absent ELSE Strip(cell)

\* The line item of a row (scraper.py:1061-1074)
LineItem(row) ==
    [name |-> Strip(row.cells[1]),
     values |-> [j \in 1..(Len(row.cells) - 1) |-> ValueOf(row.cells[j + 1])],
     is_total |-> row.bold]

\* current_section = {"section_name": ..., "line_items": []} (scraper.py:1053-1056)
NewSection(row) == [section_name |-> Strip(row.cells[1]), line_items |-> <<>>]

\* Mutant: a section is added to the output only when it has line items.
Close_nonempty(sections, current) ==
    IF current # <<>> /\ current[1].line_items # <<>> THEN sections \o current
    ELSE sections

\* if current_section: sections.append(current_section) (scraper.py:1051-1052,
\* 1076-1077).  current is <<>> for None, else the one open section.
Close(sections, current) ==
    IF current # <<>> THEN sections \o current ELSE sections

\* for row in rows: ... (scraper.py:1045-1077): the sections list.
RECURSIVE Group(_, _, _)
Group(rows, sections, current) ==
    IF rows = <<>> THEN Close(sections, current)
    ELSE LET row == Head(rows)
         IN IF row.sectionCol
              THEN Group(Tail(rows), Close(sections, current), <<NewSection(row)>>)
            ELSE IF Len(row.cells) > 1 /\ current # <<>>
              THEN Group(Tail(rows), sections,
                         <<[current[1] EXCEPT !.line_items = Append(@, LineItem(row))]>>)
            ELSE Group(Tail(rows), sections, current)

\* _parse_financial_results(html_content) (scraper.py:985-1091): the dict it
\* returns.
_parse_financial_results(page) ==
    IF ~page.container
      THEN Dict({"status", "message", "company"}, "", "error",
                "Financial results container (div#resultsCompare) not found")
    ELSE IF ~page.table
      THEN Dict({"status", "message", "company"}, "", "error",
                "Financial results table not found")
    ELSE IF ~page.thead
      THEN Dict({"status", "message"}, "", "error", "Table header not found")
    ELSE IF ~page.tbody
      THEN Dict({"status", "message", "company"}, "", "error",
                "Table body (tbody) not found")
    ELSE IF Len(page.rows) < MinResultRows
      THEN Dict({"status", "message", "company"}, "", "error",
                "Insufficient data rows found")
    ELSE [Dict({"status", "company", "quarters", "audit_status", "currency", "sections",
                "metadata"}, "", "success", "")
            EXCEPT !.sections = Group(page.rows, <<>>, <<>>)]

\* A few bodies for the callers of the parser: no rows, and a divider with
\* two line items.
FewBodies ==
    {<<>>, <<ResultRowOf("divider", 0), ResultRowOf("item", 1), ResultRowOf("total", 2)>>}
FewPages == PagesOver(FewBodies)

ResultsCalls == {[fn |-> "parse_results", page |-> p] : p \in ResultsPages}

Apply_parse_results ==
    /\ fnCall.fn = "parse_results"
    /\ fnRet = NoRet
    /\ fnRet' = Ret(_parse_financial_results(fnCall.page))
    /\ UNCHANGED <<config, cat, pc, httpLog, apiOut, browser, browserLog, result,
                   wpc, queue, loop, fnCall>>

\* -------------------------------------- the financial results search form
MaxSuggestions == 2   \* most elements of the autocomplete list
MaxButtons == 2       \* most buttons on the page

\* sub in text (Python's substring test)
Contains(text, sub) ==
    \E i \in 0..Len(text) :
        i + Len(sub) <= Len(text) /\ SubSeq(text, i + 1, i + Len(sub)) = sub

\* An element of the page: what it is, its inner text, and how it is shown:
\* "visible", "hidden", or "unclickable" (visible, but a click on it raises).
Element(kind, text, shown) == [kind |-> kind, text |-> text, shown |-> shown]
Shown == {"visible", "hidden", "unclickable"}

\* suggestion_selectors (scraper.py:1206-1215) and the selectors of the
\* first-suggestion fallback (scraper.py:1250), in the order they are tried.
SuggestionSelectors ==
    <<".tt-suggestion", ".autocompleteList", "div.autocompleteList", ".ng-option",
      "a.ng-option", "[role=option]", ".ng-option-label", "div.ng-option">>
FallbackSelectors == <<".tt-suggestion", ".autocompleteList", ".ng-option">>

\* button_selectors (scraper.py:1269-1276)
ButtonSelectors ==
    <<"button[type=submit]", "button[class*=search]", "button[id*=search]",
      "button:has-text(Search)", "input[type=submit]", "button">>

\* The elements the pages of the model are made of and the selectors each
\* matches: <div class="tt-suggestion">, <li role="option">;
\* <button type="submit">, <button class="search-btn">, <input type="submit">.
Selects(sel, kind) ==
    CASE kind = "tt"     -> sel = ".tt-suggestion"
      [] kind = "role"   -> sel = "[role=option]"
      [] kind = "submit" -> sel \in {"button[type=submit]", "button"}
      [] kind = "search" -> sel \in {"button[class*=search]", "button"}
      [] kind = "input"  -> sel = "input[type=submit]"

\* The symbol the form is searched for, and inner texts of a suggestion:
\* one that contains the symbol in another case, one that has its letters
\* but does not contain it.
FormSymbols == {<<"a", "b">>}
SuggestionTexts == {<<" ", "x", "a", "B", " ">>, <<"A", "x", "B">>}

SuggestionElems == {Element(k, s, v) : k \in {"tt", "role"}, s \in SuggestionTexts,
                                       v \in Shown}
ButtonElems == {Element(k, <<>>, v) : k \in {"submit", "search", "input"}, v \in Shown}

\* page.locator(selector): the positions of the matching elements in
\* document order.
Locate(elems, sel) ==
    SelectSeq([i \in 1..Len(elems) |-> i], LAMBDA i : Selects(sel, elems[i].kind))

\* One operation on the page as a mock of it would record it: the operation,
\* the part of the routine that made it, the position of the element.
Act(op, at, idx) == [op |-> op, at |-> at, idx |-> idx]

\* for char in symbol: await input_field.type(char, ...) (scraper.py:1199-1201)
TypeSymbol(symbol) == [i \in 1..Len(symbol) |-> Act("type", "type", i)]

\* The body of the loop over suggestions.nth(i) (scraper.py:1224-1242) for
\* the candidates left: a suggestion whose text contains the symbol and that
\* is visible is clicked; a click that raises is passed over.
RECURSIVE ClickMatching(_, _, _)
ClickMatching(symbol, elems, cands) ==
    IF cands = <<>> THEN [log |-> <<>>, found |-> FALSE]
    ELSE LET e == elems[Head(cands)]
             rest == ClickMatching(symbol, elems, Tail(cands))
         IN IF Contains(Upper(Strip(e.text)), Upper(symbol)) /\ e.shown # "hidden"
              THEN IF e.shown = "visible"
                     THEN [log |-> <<Act("click", "suggest", Head(cands))>>, found |-> TRUE]
                     ELSE [log |-> <<Act("click_failed", "suggest", Head(cands))>> \o rest.log,
                           found |-> rest.found]
              ELSE rest

\* The candidates of the loop over suggestion_selectors: for each selector in
\* order, the elements it matches in document order.
RECURSIVE Candidates(_, _)
Candidates(elems, sels) ==
    IF sels = <<>> THEN <<>>
    ELSE Locate(elems, Head(sels)) \o Candidates(elems, Tail(sels))

\* page.locator(selector).first for each selector in order: clicked if it is
\* visible, whatever its text; a click that raises is passed over
\* (scraper.py:1250-1259 for suggestions, 1279-1295 for buttons).
RECURSIVE ClickFirst(_, _, _)
ClickFirst(elems, sels, at) ==
    IF sels = <<>> THEN [log |-> <<>>, found |-> FALSE]
    ELSE LET loc == Locate(elems, Head(sels))
             rest == ClickFirst(elems, Tail(sels), at)
         IN IF loc # <<>> /\ elems[Head(loc)].shown # "hidden"
              THEN IF elems[Head(loc)].shown = "visible"
                     THEN [log |-> <<Act("click", at, Head(loc))>>, found |-> TRUE]
                     ELSE [log |-> <<Act("click_failed", at, Head(loc))>> \o rest.log,
                           found |-> rest.found]
              ELSE rest

\* Find and click suggestion (scraper.py:1205-1264): the matching loop, the
\* first-suggestion fallback, then ArrowDown and Enter.
SelectSuggestion(symbol, suggestions) ==
    LET match == ClickMatching(symbol, suggestions,
                               Candidates(suggestions, SuggestionSelectors))
        first == ClickFirst(suggestions, FallbackSelectors, "suggest")
    IN IF match.found THEN match.log
       ELSE IF first.found THEN match.log \o first.log
       ELSE match.log \o first.log
            \o <<Act("press_ArrowDown", "suggest", 0), Act("press_Enter", "suggest", 0)>>

\* Mutant: Enter is pressed whether or not a button was clicked.
SubmitFallback_always(button_found) == <<Act("press_Enter", "submit", 0)>>

\* if not button_found: await input_field.press("Enter") (scraper.py:1297-1298)
SubmitFallback(button_found) ==
    IF ~button_found THEN <<Act("press_Enter", "submit", 0)>> ELSE <<>>

\* Find and click search button (scraper.py:1268-1298)
Submit(buttons) ==
    LET click == ClickFirst(buttons, ButtonSelectors, "submit")
    IN click.log \o SubmitFallback(click.found)

\* Mutant: the page content is read before the wait for the table.
WaitAndExtract_early(visible) ==
    <<Act("content", "extract", 0),
      Act(IF visible THEN "wait_for" ELSE "wait_for_timeout", "wait", 0)>>

\* try: await table_locator.wait_for(state='visible', timeout=15000)
\* except Exception: await human_delay(5, 7)
\* html_content = await page.content() (scraper.py:1302-1310)
WaitAndExtract(visible) ==
    <<Act(IF visible THEN "wait_for" ELSE "wait_for_timeout", "wait", 0),
      Act("content", "extract", 0)>>

\* _scrape_financial_results_async from the typing of the symbol to its
\* return (scraper.py:1099, 1198-1316), on a page with these suggestions and
\* buttons, whose results table does or does not become visible, and whose
\* content is page when it is read: the operations made and the dict returned.
_scrape_form(symbol, suggestions, buttons, visible, page) ==
    LET sym == Strip(Upper(symbol))
    IN [log |-> TypeSymbol(sym) \o SelectSuggestion(sym, suggestions)
                    \o Submit(buttons) \o WaitAndExtract(visible),
        result |-> _parse_financial_results(page)]

\* Pages the form is run on: every autocomplete list with a few button sets,
\* and every button set with a few autocomplete lists.
FewButtons == {<<>>, <<Element("submit", <<>>, "visible")>>}
FewSuggestions ==
    {<<>>, <<Element("tt", <<"A", "x", "B">>, "visible")>>,
     <<Element("role", <<" ", "x", "a", "B", " ">>, "visible")>>}

\* The content read at the end: the results, a table without data rows, no
\* results container.
FormPages ==
    {p \in FewPages :
        /\ p.line1
        /\ p.table => (p.thead /\ p.tbody)
        /\ ~p.table => ~p.container}

\* How the run ends: whether the table became visible, and the content read
\* (a table that is visible is in the content).
FormEnds ==
    {e \in [visible : BOOLEAN, page : FormPages] : e.visible => e.page.table}

FormCall(y, s, b, e) ==
    [fn |-> "form", symbol |-> y, suggestions |-> s, buttons |-> b,
     visible |-> e.visible, page |-> e.page]

FormCalls ==
    {FormCall(y, s, b, e) :
        y \in FormSymbols, e \in FormEnds,
        s \in SeqsUpTo(SuggestionElems, MaxSuggestions), b \in FewButtons}
    \cup
    {FormCall(y, s, b, e) :
        y \in FormSymbols, e \in FormEnds,
        s \in FewSuggestions, b \in SeqsUpTo(ButtonElems, MaxButtons)}

Apply_form ==
    /\ fnCall.fn = "form"
    /\ fnRet = NoRet
    /\ fnRet' = Ret(_scrape_form(fnCall.symbol, fnCall.suggestions, fnCall.buttons,
                                 fnCall.visible, fnCall.page))
    /\ UNCHANGED <<config, cat, pc, httpLog, apiOut, browser, browserLog, result,
                   wpc, queue, loop, fnCall>>

\* ------------------------------------------------------- the endpoints
\* What get_equity_quote_for_symbol can return: an error dict of its own
\* (scraper.py:944, 960, 971, 974, 978) or what the parser returned.
QuoteDicts ==
    {Dict({"error"}, m, "", "") : m \in ErrorMessages}
    \cup {_parse_nse_quote_html(p) : p \in {q \in QuotePages : q.fragments = <<>>}}

\* What get_financial_results_for_symbol can return: an error dict of its own
\* or of the scrape coroutine (scraper.py:1177, 1331, 1347, 1356, 1359, 1363),
\* or what the parser returned.
ResultsDicts ==
    {Dict({"status", "message"}, "", "error", m) : m \in ErrorMessages}
    \cup {_parse_financial_results(p) : p \in FewPages}

\* What the fetch operation an endpoint calls can give it: a list of rows or
\* an exception (the four list categories), a dict (the other two).
CoreOutcomes(k) ==
    IF k \in ListCategories
      THEN {Ret(rows) : rows \in SeqsUpTo({"row"}, MaxRows)}
           \cup {Raise(e) : e \in {"RuntimeError", "WebDriverException", "TimeoutException"}}
    ELSE IF k = "EquityQuote" THEN {Ret(d) : d \in QuoteDicts}
    ELSE {Ret(d) : d \in ResultsDicts}

\* The responses of an endpoint: jsonify({...}), status.
Failure(symbol, message) ==
    [status |-> 500, symbol |-> symbol, error |-> "scrape_failed", message |-> message]
SuccessRows(symbol, rows) ==
    [status |-> 200, symbol |-> symbol, count |-> Len(rows), rows |-> rows]
SuccessData(symbol, data) ==
    [status |-> 200, symbol |-> symbol, data |-> data]
BadRequest == [status |-> 400]

\* Mutant: the endpoint does not look into the dict it was given.
Endpoint_unchecked(k, raw, outcome) ==
    LET symbol == Strip(raw)
    IN IF symbol = <<>> THEN BadRequest
       ELSE IF outcome.st = "raised" THEN Failure(Upper(symbol), outcome.val)
       ELSE IF k \in ListCategories THEN SuccessRows(Upper(symbol), outcome.val)
       ELSE SuccessData(Upper(symbol), outcome.val)

\* Mutant: the fetch operation is called before the symbol is looked at.
Endpoint_fetch_first(k, raw, outcome) ==
    LET symbol == Strip(raw)
    IN IF outcome.st = "raised" THEN Failure(Upper(symbol), outcome.val)
       ELSE IF symbol = <<>> THEN BadRequest
       ELSE IF k \in ListCategories THEN SuccessRows(Upper(symbol), outcome.val)
       ELSE SuccessData(Upper(symbol), outcome.val)

\* The six endpoints of app.py (app.py:49-71, 96-120, 147-171, 196-220,
\* 256-290, 331-365).  outcome: what the fetch operation gives when called.
Endpoint(k, raw, outcome) ==
    LET symbol == Strip(raw)
    IN IF symbol = <<>> THEN BadRequest
       ELSE IF outcome.st = "raised" THEN Failure(Upper(symbol), outcome.val)
       ELSE IF k \in ListCategories THEN SuccessRows(Upper(symbol), outcome.val)
       ELSE IF k = "EquityQuote" /\ "error" \in outcome.val.keys
              THEN Failure(Upper(symbol), outcome.val.error)
       ELSE IF k = "FinancialResults" /\ outcome.val.status = "error"
              THEN Failure(Upper(symbol),
                           IF "message" \in outcome.val.keys THEN outcome.val.message
                           ELSE "Unknown error")
       ELSE SuccessData(Upper(symbol), outcome.val)

EndpointCalls ==
    UNION {{[fn |-> "endpoint", cat |-> k, raw |-> r, outcome |-> o] :
               r \in RawSymbols, o \in CoreOutcomes(k)} : k \in Categories}

Apply_endpoint ==
    /\ fnCall.fn = "endpoint"
    /\ fnRet = NoRet
    /\ fnRet' = Ret(Endpoint(fnCall.cat, fnCall.raw, fnCall.outcome))
    /\ UNCHANGED <<config, cat, pc, httpLog, apiOut, browser, browserLog, result,
                   wpc, queue, loop, fnCall>>

FnCalls == PickCalls \cup NormalizeCalls \cup ParseCalls \cup QuoteCalls
           \cup ResultsCalls \cup FormCalls \cup EndpointCalls

\* Startup with the default configuration (scraper.py:18-22, 40), no request,
\* and one helper about to be applied.
InitFn ==
    /\ USE_SELENIUM_FALLBACK = TRUE
    /\ PLAYWRIGHT_AVAILABLE = TRUE
    /\ InitCalls
    /\ fnCall \in FnCalls
    /\ fnRet = NoRet

NextFn ==
    \/ Apply_pick
    \/ Apply_normalize
    \/ Apply_parse_table
    \/ Apply_parse_quote
    \/ Apply_parse_results
    \/ Apply_form
    \/ Apply_endpoint

SpecFn == InitFn /\ [][NextFn]_vars

\* ================================================================= claims
IsList(c) == cat[c] \in ListCategories
IsWorker(c) == cat[c] \in WorkerCategories

\* GETs of the call's session by URL; a "page" GET would be a static-HTML fetch.
GetsOf(c, u) == {i \in 1..Len(httpLog[c]) : httpLog[c][i].url = u}
Blocked(c) == \E i \in 1..Len(httpLog[c]) : httpLog[c][i].ans = "blocked"
PrimeFailed(c) == httpLog[c] # <<>> /\ httpLog[c][1].url = "base" /\ httpLog[c][1].ans # "ok"

ApiOver(c) == apiOut[c].st # "pending"
ApiYielded(c) == apiOut[c].st = "returned" /\ apiOut[c].rows # <<>>
ApiLost(c) == ApiOver(c) /\ ~ApiYielded(c)

\* The browser tier of a list category: _build_driver is about to be, or was, called.
BrowserTierEntered(c) == pc[c] = "build_driver" \/ browserLog[c] # <<>>
BrowserSteps(c) == {browserLog[c][i] : i \in 1..Len(browserLog[c])}
Launches(c) == {i \in 1..Len(browserLog[c]) : browserLog[c][i] \in {"launch", "launch_failed"}}

\* Launch and transport failures of the Selenium tier.
FailSteps == {"launch_failed", "get_base_failed", "get_page_failed", "page_source_failed"}

LiveBrowsers == {c \in Calls : browser[c] = "live"}

\* C1: for a list category, when the API tier yields at least one record the
\* call returns exactly those records, makes no static-HTML fetch and never
\* launches a browser.
C1_ApiShortCircuit ==
    \A c \in Calls :
        (IsList(c) /\ ApiYielded(c)) =>
            /\ pc[c] = "done"
            /\ result[c] = RowsResult(apiOut[c].rows)
            /\ GetsOf(c, "page") = {}
            /\ browser[c] = "none"
            /\ browserLog[c] = <<>>

C1_Witness ==
    \E c \in Calls :
        /\ IsList(c) /\ ApiYielded(c) /\ pc[c] = "done"
        /\ result[c].kind = "rows" /\ Len(result[c].rows) >= 1

\* C2 as stated: the browser tier of a list category is entered only after a
\* static-HTML fetch of the same call (and that one only after the API tier).
C2_StaticBeforeBrowser ==
    \A c \in Calls :
        (IsList(c) /\ BrowserTierEntered(c)) => GetsOf(c, "page") # {}

\* C2 amended: a list-category call has two tiers in a fixed order.  The API
\* probe comes first (the priming GET, then at most one API GET and only on a
\* primed session); the browser tier is entered only after the API tier
\* raised or returned empty; no static-HTML fetch is ever made.
C2_ApiThenBrowser ==
    \A c \in Calls :
        IsList(c) =>
            /\ GetsOf(c, "page") = {}
            /\ GetsOf(c, "api") \subseteq {2}
            /\ GetsOf(c, "api") # {} => httpLog[c][1] = Get("base", "ok")
            /\ BrowserTierEntered(c) =>
                   /\ ApiLost(c)
                   /\ httpLog[c] # <<>>
                   /\ httpLog[c][1].url = "base"

C2_Witness ==
    \E c \in Calls :
        /\ IsList(c) /\ browser[c] = "live"
        /\ apiOut[c] = Returned(<<>>) /\ Len(httpLog[c]) = 2

C4_ApiErrorsSwallowed ==
    USE_SELENIUM_FALLBACK =>
        \A c \in Calls :
            (IsList(c) /\ ApiLost(c)) =>
                /\ BrowserTierEntered(c)
                /\ result[c].kind = "raise" =>
                       /\ browserLog[c] # <<>>
                       /\ result[c].err \in {"WebDriverException", "TimeoutException"}

C4_Witness ==
    \E c \in Calls :
        /\ USE_SELENIUM_FALLBACK /\ IsList(c)
        /\ apiOut[c].st = "raised" /\ "launch" \in BrowserSteps(c)

\* C5 as stated, for BoardMeetings: when the API tier gave nothing and the
\* browser tier ended without a launch or navigation (transport) error, the
\* caller receives a list, not an error.
C5_EmptyIsSuccess ==
    \A c \in Calls :
        ( /\ cat[c] = "BoardMeetings" /\ pc[c] = "done"
          /\ ApiLost(c) /\ USE_SELENIUM_FALLBACK
          /\ BrowserSteps(c) \cap FailSteps = {} ) =>
            result[c].kind = "rows"

\* C6: with the browser tier enabled, a list-category call whose browser
\* cannot be launched, or whose navigation fails, ends in an error and never
\* in a list; nothing is attempted after the failure except driver.quit():
\* no second launch, no further request.
C6_BrowserFailureTerminal ==
    \A c \in Calls :
        (IsList(c) /\ BrowserSteps(c) \cap FailSteps # {}) =>
            /\ USE_SELENIUM_FALLBACK
            /\ pc[c] = "done"
            /\ result[c].kind = "raise"
            /\ browser[c] # "live"
            /\ Cardinality(Launches(c)) = 1
            /\ Len(httpLog[c]) <= 2
            /\ \E i \in 1..Len(browserLog[c]) :
                   /\ browserLog[c][i] \in FailSteps
                   /\ SubSeq(browserLog[c], i + 1, Len(browserLog[c])) \in {<<>>, <<"quit">>}

C6_Witness ==
    \E c \in Calls :
        /\ IsList(c) /\ ApiLost(c) /\ pc[c] = "done"
        /\ browserLog[c] = <<"launch_failed">> /\ result[c].kind = "raise"

\* C7: with the browser tier disabled, a list-category call whose API tier
\* raised or returned empty ends in the RuntimeError, and no list-category
\* call ever launches a browser.
C7_DisabledIsHardFailure ==
    ~USE_SELENIUM_FALLBACK =>
        \A c \in Calls :
            IsList(c) =>
                /\ browser[c] = "none"
                /\ browserLog[c] = <<>>
                /\ pc[c] # "build_driver"
                /\ ApiLost(c) => (pc[c] = "done" /\ result[c] = RaiseResult("RuntimeError"))

C7_Witness ==
    \E c \in Calls :
        /\ ~USE_SELENIUM_FALLBACK /\ IsList(c) /\ ApiLost(c)
        /\ result[c] = RaiseResult("RuntimeError")

\* C8 as stated: after a failed priming GET the category's own request is
\* still issued with the session.
C8_RequestAfterFailedPrime ==
    \A c \in Calls :
        (IsList(c) /\ PrimeFailed(c)) => GetsOf(c, "api") # {}

\* C8 amended: when the priming GET fails, _init_nse_session raises and the
\* category's API request is not issued; the priming failure is not raised
\* to the caller of the category function, which goes on to the browser tier
\* (or raises the RuntimeError when that tier is disabled).
C8_FailedPrimeSkipsApi ==
    \A c \in Calls :
        (IsList(c) /\ PrimeFailed(c)) =>
            /\ httpLog[c] = <<httpLog[c][1]>>
            /\ apiOut[c] = Raises
            /\ result[c].err \in {"", "RuntimeError", "WebDriverException", "TimeoutException"}
            /\ IF USE_SELENIUM_FALLBACK THEN BrowserTierEntered(c)
               ELSE result[c] = RaiseResult("RuntimeError")

C8_Witness ==
    \E c \in Calls :
        /\ IsList(c) /\ PrimeFailed(c) /\ httpLog[c][1].ans = "neterr"
        /\ pc[c] = "done" /\ result[c].kind = "rows"

\* C9 as stated: once an EquityQuote / FinancialResults call has returned the
\* timeout error, its worker is torn down: it takes no further step and no
\* browser of the call is open.
C9_WorkerTornDown ==
    [][ \A c \in Calls :
          (IsWorker(c) /\ result[c] = ObjResult("error_timeout") /\ result'[c] = result[c]) =>
              /\ wpc'[c] = wpc[c]
              /\ browserLog'[c] = browserLog[c]
              /\ browser'[c] # "live" ]_vars

\* C10 as stated: the number of simultaneously live browsers stays under a
\* fixed bound that the number of concurrent requests can exceed.
PoolBound == NumCalls - 1

C10_BoundedBrowsers == Cardinality(LiveBrowsers) <= PoolBound

\* Everything call c owns: its session's requests, its browser, its queue,
\* its worker, its position and its result.
Slot(c) == <<cat[c], pc[c], httpLog[c], apiOut[c], browser[c], browserLog[c],
             result[c], wpc[c], queue[c], loop[c]>>

\* C11: under any interleaving of concurrent calls, a step of the program is
\* the step of one call: it reads and writes nothing that belongs to another
\* call (session, browser, queue, worker, result), so what a call does and
\* returns is what it does and returns alone; and the process-wide
\* configuration is never written after startup.
C11_NoSharedState ==
    [][ /\ USE_SELENIUM_FALLBACK' = USE_SELENIUM_FALLBACK
        /\ PLAYWRIGHT_AVAILABLE' = PLAYWRIGHT_AVAILABLE
        /\ \E c \in Calls : \A d \in Calls \ {c} : Slot(d)' = Slot(d) ]_vars

\* Two calls of the same category in flight at once, with different fates.
C11_Witness ==
    \E c \in Calls, d \in Calls :
        /\ c # d /\ cat[c] = cat[d] /\ IsList(c)
        /\ ApiYielded(c) /\ pc[c] = "done"
        /\ browser[d] = "live" /\ apiOut[d].st = "raised"

\* t is s without its leading and trailing whitespace.
IsStripOf(t, s) ==
    /\ t = <<>> \/ (t[1] # " " /\ t[Len(t)] # " ")
    /\ \E i \in 0..Len(s), j \in 0..Len(s) :
           /\ i <= j
           /\ t = SubSeq(s, i + 1, j)
           /\ \A n \in (1..i) \cup ((j + 1)..Len(s)) : s[n] = " "

\* The candidate at position i has a value that is neither null nor "".
HasValue(item, keys, i) ==
    /\ keys[i] \in DOMAIN item
    /\ item[keys[i]].t # "null"
    /\ ~(item[keys[i]].t = "str" /\ item[keys[i]].s = <<>>)

\* The text of a JSON value.
TextOf(v) == IF v.t = "num" THEN <<"0">> ELSE v.s

\* C12: _pick returns the trimmed text of the first candidate key, left to
\* right, whose value in the item is neither null nor ""; it returns the
\* default exactly when no candidate has such a value; a later candidate never
\* wins over an earlier one that has a value.
C12_FirstCandidateWins ==
    (fnCall.fn = "_pick" /\ fnRet # NoRet) =>
        LET item == fnCall.item
            keys == fnCall.keys
            good == {i \in 1..Len(keys) : HasValue(item, keys, i)}
        IN /\ fnRet.st = "returned"
           /\ good = {} => fnRet.val = fnCall.default
           /\ good # {} =>
                  \E i \in good :
                      /\ \A j \in good : i <= j
                      /\ IsStripOf(fnRet.val, TextOf(item[keys[i]]))

\* Both candidates have a value, the values differ after trimming, and the
\* first one was returned.
C12_Witness ==
    /\ fnCall.fn = "_pick" /\ fnRet # NoRet
    /\ fnCall.keys = <<"k2", "k1">>
    /\ DOMAIN fnCall.item = PickKeys
    /\ fnCall.item["k2"] = JStr(<<" ", "a">>)
    /\ fnCall.item["k1"] = JZero
    /\ fnRet = Ret(<<"a">>)

\* The fields of each list category's records (app.py:33-46, 78-93, 127-143,
\* 178-192).
OutputFields(k) ==
    CASE k = "EventCalendar" -> {"symbol", "company", "purpose", "details", "date"}
      [] k = "BoardMeetings" ->
           {"symbol", "company", "purpose", "details_link", "meeting_date",
            "attachment_link", "broadcast_datetime"}
      [] k = "CorporateActions" ->
           {"symbol", "company", "series", "purpose", "face_value", "ex_date",
            "record_date", "book_closure_start", "book_closure_end"}
      [] k = "Announcements" ->
           {"symbol", "company", "subject", "details", "attachment_link",
            "xbrl_link", "broadcast_datetime"}

IsText(v) == \A n \in DOMAIN v : v[n] \in Chars

\* No candidate key of field number i is in the item.
AllMissing(k, i, item) ==
    \A j \in 1..Len(Schema(k)[i].keys) : Schema(k)[i].keys[j] \notin DOMAIN item

\* C13: for the four list categories, normalising a raw item (a dict) never
\* raises whichever candidate keys are missing, all of them included: the
\* record has every field of the category's schema, each a string, and a field
\* none of whose candidates is in the item equals its default (the requested
\* symbol for "symbol", "" for every other field).
C13_NormalizeTotal ==
    (fnCall.fn = "normalize" /\ fnRet # NoRet) =>
        /\ fnRet.st = "returned"
        /\ DOMAIN fnRet.val = OutputFields(fnCall.cat)
        /\ \A f \in OutputFields(fnCall.cat) : IsText(fnRet.val[f])
        /\ \A i \in 1..Len(Schema(fnCall.cat)) :
               AllMissing(fnCall.cat, i, fnCall.item) =>
                   fnRet.val[Schema(fnCall.cat)[i].field] =
                       (IF Schema(fnCall.cat)[i].field = "symbol"
                          THEN fnCall.symbol ELSE <<>>)

\* An item with none of the candidate keys was normalised into a record of
\* defaults.
C13_Witness ==
    /\ fnCall.fn = "normalize" /\ fnCall.cat = "BoardMeetings"
    /\ DOMAIN fnCall.item = {}
    /\ fnRet.st = "returned"
    /\ fnRet.val["symbol"] = SymbolArg
    /\ fnRet.val["attachment_link"] = <<>>

\* The API GET of call c was answered with a non-empty JSON array of objects.
ArrayOfObjects(c) ==
    \E i \in GetsOf(c, "api") :
        /\ httpLog[c][i].array
        /\ httpLog[c][i].elems # <<>>
        /\ \A n \in 1..Len(httpLog[c][i].elems) : httpLog[c][i].elems[n] \in ObjItems

ArrayElems(c) == httpLog[c][CHOOSE i \in GetsOf(c, "api") : TRUE].elems

\* C14 as stated: when the EventCalendar endpoint answers with a JSON array of
\* objects, the call returns through the API tier, one record per object in
\* the order of the array, and launches no browser.
C14_ArrayThroughApi ==
    \A c \in Calls :
        (cat[c] = "EventCalendar" /\ ArrayOfObjects(c)) =>
            /\ pc[c] = "done"
            /\ result[c] = RowsResult([n \in 1..Len(ArrayElems(c)) |->
                                          Normalize("EventCalendar", ArrayElems(c)[n])])
            /\ browser[c] = "none"
            /\ browserLog[c] = <<>>

\* The table each list category's parser looks for: its identifier and, for
\* Announcements, the fallback identifier and the class match.
OwnTable(k, doc) ==
    \/ k = "EventCalendar" /\ doc.table = "CFeventCalendarTable"
    \/ k = "BoardMeetings" /\ doc.table = "CFboardmeetingEquityTable"
    \/ k = "CorporateActions" /\ doc.table = "CFcorpactionsEquityTable"
    \/ k = "Announcements" /\ doc.table \in {"CFanncEquityTable", "CFanncEquity", "annc_class"}

Parsed == fnCall.fn = "parse_table" /\ fnRet # NoRet

\* C15: each list category's table parser returns the empty list, and does
\* not raise, for a document without a table of the target (or a fallback)
\* identifier, for a table without a body section, and for a body of zero
\* rows.
C15_NoTableNoRows ==
    ( /\ Parsed
      /\ \/ ~OwnTable(fnCall.cat, fnCall.doc)
         \/ ~fnCall.doc.tbody
         \/ fnCall.doc.rows = <<>> ) => fnRet = Ret(<<>>)

\* The board meetings parser was given its table without a <tbody>.
C15_Witness ==
    /\ Parsed /\ fnCall.cat = "BoardMeetings"
    /\ fnCall.doc.table = "CFboardmeetingEquityTable" /\ ~fnCall.doc.tbody
    /\ fnRet = Ret(<<>>)

\* The body rows of the parsed document with at least the category's minimum
\* number of cells, in document order.
WideRows ==
    LET least == CASE fnCall.cat = "EventCalendar" -> 4
                   [] fnCall.cat = "BoardMeetings" -> 7
                   [] fnCall.cat = "Announcements" -> 7
                   [] fnCall.cat = "CorporateActions" -> 9
    IN IF OwnTable(fnCall.cat, fnCall.doc) /\ fnCall.doc.tbody
         THEN SelectSeq(fnCall.doc.rows, LAMBDA tds : Len(tds) >= least)
         ELSE <<>>

\* The text that tells the rows of a document apart: that of the first cell,
\* when the cell holds one node.
RowLabel(tds) == GetText(<<tds[1].nodes[1]>>)

\* C16: for every document, a list category's table parser emits exactly one
\* record for each body row that has at least the category's minimum number of
\* cells (4 EventCalendar, 7 BoardMeetings and Announcements, 9
\* CorporateActions), in document order, and none for a row with fewer cells.
C16_OneRecordPerWideRow ==
    Parsed =>
        /\ fnRet.st = "returned"
        /\ Len(fnRet.val) = Len(WideRows)
        /\ \A i \in 1..Len(WideRows) :
               Len(WideRows[i][1].nodes) = 1 =>
                   fnRet.val[i]["symbol"] = RowLabel(WideRows[i])

\* A row one cell short followed by a row of the minimum length: one record,
\* that of the second row.
C16_Witness ==
    /\ Parsed /\ fnCall.cat = "CorporateActions"
    /\ Len(fnCall.doc.rows) = 2
    /\ Len(fnCall.doc.rows[1]) = 8 /\ Len(fnCall.doc.rows[2]) = 9
    /\ Len(fnRet.val) = 1
    /\ fnRet.val[1]["symbol"] = <<"y", "c0">>

\* The fields of a corporate actions record in the order of the table's
\* columns (app.py:131-142).
CorporateActionsFields ==
    <<"symbol", "company", "series", "purpose", "face_value", "ex_date",
      "record_date", "book_closure_start", "book_closure_end">>

\* The parsed document is a corporate actions table of one row of 9 cells.
NineCells ==
    /\ Parsed /\ fnCall.cat = "CorporateActions"
    /\ Len(WideRows) = 1 /\ Len(WideRows[1]) = 9

\* C18 as stated: the text of cells 0..8 of a corporate actions row of 9
\* cells becomes, cell by cell, symbol, company, series, purpose, face_value,
\* ex_date, record_date, book_closure_start, book_closure_end.
C18_CellTextPositional ==
    NineCells =>
        \A i \in 1..9 :
            fnRet.val[1][CorporateActionsFields[i]] = GetText(WideRows[1][i].nodes)

\* The link of a cell, if it has one.
LinkOf(cell) == CHOOSE n \in {cell.nodes[j] : j \in DOMAIN cell.nodes} : n.tag = "a"
HasLink(cell) == \E j \in DOMAIN cell.nodes : cell.nodes[j].tag = "a"

\* C18 amended: a corporate actions row of 9 cells maps positionally: symbol
\* is the text of the link in cell 0 when that cell has a link and the text of
\* cell 0 otherwise; company, series, purpose, face_value, ex_date,
\* record_date, book_closure_start, book_closure_end are the texts of cells
\* 1..8 in this order; no cell's text ends up in another field.
C18_PositionalWithSymbolLink ==
    NineCells =>
        /\ fnRet.val[1]["symbol"] =
               (IF HasLink(WideRows[1][1]) THEN GetText(<<LinkOf(WideRows[1][1])>>)
                ELSE GetText(WideRows[1][1].nodes))
        /\ \A i \in 2..9 :
               fnRet.val[1][CorporateActionsFields[i]] = GetText(WideRows[1][i].nodes)

\* A row of nine plain cells but for a symbol cell with a link and text after it.
C18_Witness ==
    /\ NineCells
    /\ WideRows[1][1] = CellOf("mixed", 0)
    /\ fnRet.val[1]["symbol"] = <<"c0">>
    /\ fnRet.val[1]["ex_date"] = <<"c5">>
    /\ fnRet.val[1]["record_date"] = <<"c6">>
    /\ fnRet.val[1]["book_closure_end"] = <<"c8">>

\* The link columns of the two tables that have them: field and cell index.
LinkColumns(k) ==
    CASE k = "BoardMeetings" -> {<<"details_link", 3>>, <<"attachment_link", 5>>}
      [] k = "Announcements" -> {<<"attachment_link", 4>>, <<"xbrl_link", 5>>}
      [] OTHER -> {}

\* The cell has an anchor that has an href.
HasHref(cell) == \E j \in DOMAIN cell.nodes :
                    cell.nodes[j].tag = "a" /\ cell.nodes[j].href # NoHref

\* C19: for every link column of the BoardMeetings and Announcements tables
\* (details_link, attachment_link, xbrl_link) the field is the href of the
\* cell's anchor when the cell has an anchor with an href and "" otherwise;
\* a row whose cell has no anchor (the XBRL cell, say) is still in the result.
C19_LinkRule ==
    (Parsed /\ fnCall.cat \in {"BoardMeetings", "Announcements"}) =>
        /\ Len(fnRet.val) = Len(WideRows)
        /\ \A i \in 1..Len(WideRows) : \A col \in LinkColumns(fnCall.cat) :
               LET cell == WideRows[i][col[2] + 1]
               IN fnRet.val[i][col[1]] =
                      (IF HasHref(cell) THEN LinkOf(cell).href ELSE <<>>)

\* An announcements row with an attachment link and no anchor in its XBRL
\* cell: the row is there, xbrl_link is "".
C19_Witness ==
    /\ Parsed /\ fnCall.cat = "Announcements"
    /\ Len(WideRows) = 1
    /\ WideRows[1][5] = CellOf("link", 4)
    /\ WideRows[1][6] = CellOf("plain", 5)
    /\ Len(fnRet.val) = 1
    /\ fnRet.val[1]["attachment_link"] = <<"/h", "c4">>
    /\ fnRet.val[1]["xbrl_link"] = <<>>

\* The fetch the endpoint called surfaced an error: it raised, or it returned
\* an error-valued dict (key "error" for EquityQuote, status "error" for
\* FinancialResults).
SurfacedError ==
    \/ fnCall.outcome.st = "raised"
    \/ /\ fnCall.cat = "EquityQuote" /\ "error" \in fnCall.outcome.val.keys
    \/ /\ fnCall.cat = "FinancialResults" /\ fnCall.outcome.val.status = "error"

\* The message of the surfaced error.
SurfacedMessage ==
    IF fnCall.outcome.st = "raised" THEN fnCall.outcome.val
    ELSE IF fnCall.cat = "EquityQuote" THEN fnCall.outcome.val.error
    ELSE fnCall.outcome.val.message

\* t is the requested symbol, trimmed and in upper case.
IsUpperSymbol(t, raw) ==
    \E sym \in RawSymbols :
        /\ IsStripOf(sym, raw)
        /\ Len(t) = Len(sym)
        /\ \A i \in 1..Len(sym) : t[i] = (IF sym[i] \in {"a", "A"} THEN "A" ELSE sym[i])

\* The endpoint called its fetch operation (the symbol was not blank).
Served == fnCall.fn = "endpoint" /\ fnRet # NoRet /\ fnRet.val.status # 400

\* C20: for each of the six endpoints, an error surfaced by the core (an
\* exception of the fetch operation or, for EquityQuote and FinancialResults,
\* an error-valued result) becomes a failure response with the upper-cased
\* symbol, the error kind tag and the message; the success envelope is never
\* returned for it.
C20_ErrorsBecomeFailures ==
    (Served /\ SurfacedError) =>
        /\ fnRet.val.status = 500
        /\ DOMAIN fnRet.val = {"status", "symbol", "error", "message"}
        /\ fnRet.val.error = "scrape_failed"
        /\ fnRet.val.message = SurfacedMessage
        /\ IsUpperSymbol(fnRet.val.symbol, fnCall.raw)

\* The financial results endpoint, asked for " a", was given the timeout dict.
C20_Witness ==
    /\ Served /\ fnCall.cat = "FinancialResults"
    /\ fnCall.raw = <<" ", "a">>
    /\ fnCall.outcome.val.status = "error" /\ fnCall.outcome.val.message = "timeout"
    /\ fnRet.val = [status |-> 500, symbol |-> <<"A">>, error |-> "scrape_failed",
                    message |-> "timeout"]

\* The dict is error-valued, as the endpoints test it (app.py:262, 337).
ErrorValued(k, d) ==
    IF k = "EquityQuote" THEN "error" \in d.keys ELSE d.status = "error"

\* The quote parser was applied to a page and a statement of its try block
\* raised.
QuoteParseRaised ==
    fnCall.fn = "parse_quote" /\ fnRet # NoRet /\ fnCall.page.fault # "none"

\* C21 as stated: when parsing the rendered EquityQuote page raises, the
\* EquityQuote operation yields an error-valued object and its endpoint a
\* failure response, not a successful partial quote.
C21_ParseErrorSurfaced ==
    QuoteParseRaised =>
        /\ ErrorValued("EquityQuote", fnRet.val)
        /\ Endpoint("EquityQuote", SymbolArg, fnRet).status = 500

\* The page handed to the quote or results parser is well formed but has no
\* data for the symbol: no quote body; no results container, no results
\* table, no table body, or fewer data rows than the parser asks for.
NoDataPage ==
    \/ /\ fnCall.fn = "parse_quote"
       /\ fnCall.page.fault = "none"
       /\ ~fnCall.page.main
    \/ /\ fnCall.fn = "parse_results"
       /\ fnCall.page.table => fnCall.page.thead
       /\ \/ ~fnCall.page.container
          \/ ~fnCall.page.table
          \/ ~fnCall.page.tbody
          \/ Len(fnCall.page.rows) < 3

\* C22 as stated: for EquityQuote and FinancialResults, a rendered page that
\* is well formed but carries no data for the symbol gives a result that is
\* not error-valued.
C22_NoDataIsSuccess ==
    (NoDataPage /\ fnRet # NoRet) =>
        ~ErrorValued(IF fnCall.fn = "parse_quote" THEN "EquityQuote"
                     ELSE "FinancialResults", fnRet.val)

\* C23: every automation step of an EquityQuote / FinancialResults call is
\* taken by the call's worker thread on the event loop that worker created:
\* the calling thread, which only starts the worker and waits, does not move
\* in such a step and takes none itself; the worker keeps its loop for all its
\* steps; and at no time do two calls have the same loop.
C23_DedicatedWorkerLoop ==
    [][ \A c \in Calls :
          /\ (IsWorker(c) /\ browserLog'[c] # browserLog[c] /\ browserLog'[c] # <<>>) =>
                 /\ pc'[c] = pc[c]
                 /\ pc[c] # "spawn"
                 /\ wpc[c] \notin {"none", "dead"}
                 /\ wpc'[c] # wpc[c]
                 /\ loop'[c] # 0
                 /\ loop[c] # 0 => loop'[c] = loop[c]
          /\ \A d \in Calls \ {c} : loop'[c] # 0 => loop'[c] # loop'[d] ]_vars

\* Two calls in flight at once, each waiting for its worker, each worker past
\* its navigation on a loop of its own.
C23_Witness ==
    \E c \in Calls, d \in Calls :
        /\ c # d /\ IsWorker(c) /\ IsWorker(d)
        /\ pc[c] = "join" /\ pc[d] = "join"
        /\ "goto" \in BrowserSteps(c) /\ "goto" \in BrowserSteps(d)
        /\ loop[c] # 0 /\ loop[d] # 0 /\ loop[c] # loop[d]

\* The wait strategies call c tried, in the order it tried them.
WaitsOf(c) ==
    SelectSeq(browserLog[c], LAMBDA s : s \in {"wait_id", "wait_css", "wait_rows"})

IsPrefix(s, u) == Len(s) <= Len(u) /\ s = SubSeq(u, 1, Len(s))

\* C24 as stated: in the browser tier of every list category the wait tries
\* presence by identifier, then by partial-identifier selector, then of a data
\* row, in this order; a strategy that fails never fails the call, and the
\* page is extracted also when every strategy failed.
C24_WaitFallbacks ==
    \A c \in Calls :
        (IsList(c) /\ WaitsOf(c) # <<>>) =>
            /\ IsPrefix(WaitsOf(c), <<"wait_id", "wait_css", "wait_rows">>)
            /\ result[c] # RaiseResult("TimeoutException")
            /\ pc[c] = "done" =>
                   BrowserSteps(c) \cap {"page_source", "page_source_failed"} # {}

\* In the browser log of call c every step b comes after a step a.
Before(c, a, b) ==
    \A j \in 1..Len(browserLog[c]) :
        browserLog[c][j] = b => \E i \in 1..(j - 1) : browserLog[c][i] = a

\* C25: in the browser tier of a list category the root page is loaded before
\* the category URL, the category URL before any wait, and the page content is
\* read (and handed to the table parser) only after the wait; a run that
\* returns rows has taken every step once, in this order: launch, root page,
\* category URL, the wait, page content, quit.
C25_BrowserSequence ==
    \A c \in Calls :
        (IsList(c) /\ browserLog[c] # <<>>) =>
            /\ Before(c, "launch", "get_base")
            /\ Before(c, "get_base", "get_page")
            /\ \A w \in {"wait_id", "wait_css", "wait_rows"} : Before(c, "get_page", w)
            /\ Before(c, "wait_id", "page_source")
            /\ \A i \in 1..Len(browserLog[c]), j \in 1..Len(browserLog[c]) :
                   ( /\ browserLog[c][i] = "page_source"
                     /\ browserLog[c][j] \in {"wait_id", "wait_css", "wait_rows"} ) => j < i
            /\ (pc[c] = "done" /\ result[c].kind = "rows") =>
                   /\ WaitsOf(c) # <<>>
                   /\ browserLog[c] = <<"launch", "get_base", "get_page">> \o WaitsOf(c)
                                          \o <<"page_source", "quit">>

\* An announcements call that went through all three wait strategies and
\* returned the row of the rendered table.
C25_Witness ==
    \E c \in Calls :
        /\ cat[c] = "Announcements" /\ pc[c] = "done"
        /\ browserLog[c] = <<"launch", "get_base", "get_page", "wait_id", "wait_css",
                             "wait_rows", "page_source", "quit">>
        /\ result[c].kind = "rows" /\ Len(result[c].rows) = 1

\* How often call c scrolled the page to nudge a lazy load, and how often it
\* read the page content.
Nudges(c) == Len(SelectSeq(browserLog[c], LAMBDA s : s = "scroll"))
Reads(c) == Len(SelectSeq(browserLog[c], LAMBDA s : s = "page_source"))

\* The call went through the browser tier of a list category and returned rows.
RenderedRows(c) ==
    IsList(c) /\ pc[c] = "done" /\ result[c].kind = "rows" /\ browserLog[c] # <<>>

\* C26 as stated: a browser-tier run whose first extraction yields no records
\* makes exactly one lazy-load nudge (scroll to bottom, wait, re-extract)
\* before it returns an empty result, and a run whose first extraction yielded
\* records makes none.
C26_OneNudgeWhenEmpty ==
    \A c \in Calls :
        RenderedRows(c) =>
            /\ Nudges(c) <= 1
            /\ Reads(c) = Nudges(c) + 1
            /\ result[c].rows = <<>> => Nudges(c) = 1

\* C26 amended: the browser tier of a list category makes no lazy-load nudge:
\* it never scrolls and reads the page content at most once; a run that
\* returns rows, none included, has read the page content exactly once, as
\* its last step before driver.quit().
C26_SingleExtraction ==
    \A c \in Calls :
        (IsList(c) /\ browserLog[c] # <<>>) =>
            /\ Nudges(c) = 0
            /\ Reads(c) <= 1
            /\ RenderedRows(c) =>
                   /\ Reads(c) = 1
                   /\ SubSeq(browserLog[c], Len(browserLog[c]) - 1, Len(browserLog[c]))
                          = <<"page_source", "quit">>

\* A board meetings call whose rendered page gave no records: it returned
\* the empty list after one read of the page.
C26_Witness ==
    \E c \in Calls :
        /\ cat[c] = "BoardMeetings" /\ RenderedRows(c)
        /\ result[c] = RowsResult(<<>>)
        /\ Reads(c) = 1 /\ Nudges(c) = 0

\* A run of the search form has returned; the operations it made.
FormRan == fnCall.fn = "form" /\ fnRet # NoRet
FormLog == fnRet.val.log

\* The operations of one part of the run, in order.
Part(at) == SelectSeq(FormLog, LAMBDA a : a.at = at)

\* The clicks that went through in one part of the run.
Clicks(at) == SelectSeq(FormLog, LAMBDA a : a.at = at /\ a.op = "click")

\* The text of a suggestion contains the symbol, whatever the case.
Matches(e) == Contains(Upper(e.text), Upper(fnCall.symbol))

\* C27 as stated: the autocomplete suggestion clicked by the form interaction
\* is one whose text contains the symbol, compared without regard to case; a
\* suggestion whose text does not contain the symbol is never clicked.
C27_ClickedSuggestionMatches ==
    FormRan =>
        \A i \in 1..Len(FormLog) :
            (FormLog[i].at = "suggest" /\ FormLog[i].op = "click") =>
                Matches(fnCall.suggestions[FormLog[i].idx])

\* The parts of a run in the order they are taken.
PartOrder == <<"type", "suggest", "submit", "wait", "extract">>
PartIndex(at) == CHOOSE i \in 1..Len(PartOrder) : PartOrder[i] = at

\* C28: the form interaction types the symbol, selects a suggestion, submits,
\* waits for the results table and extracts, in this order; the submit is a
\* click on a visible submit control, and Enter is pressed as the submit
\* action exactly when no submit control was clicked, so that one and only
\* one of the two submit actions happens in a run.
C28_FormOrderOneSubmit ==
    FormRan =>
        /\ \A i, j \in 1..Len(FormLog) :
               i < j => PartIndex(FormLog[i].at) <= PartIndex(FormLog[j].at)
        /\ \A k \in {"type", "suggest", "submit", "wait", "extract"} : Part(k) # <<>>
        /\ Len(Part("type")) = Len(Strip(fnCall.symbol))
        /\ Len(Clicks("submit")) + Len(SelectSeq(Part("submit"),
                                         LAMBDA a : a.op = "press_Enter")) = 1
        /\ \A i \in 1..Len(Clicks("submit")) :
               fnCall.buttons[Clicks("submit")[i].idx].shown = "visible"
        /\ Clicks("submit") = <<>> => Part("submit")[Len(Part("submit"))].op = "press_Enter"

\* Witness of C28: a run that clicked a suggestion and whose submit is a
\* click on a button after the click on an earlier button raised.
C28_Witness ==
    /\ FormRan
    /\ Len(Clicks("submit")) = 1
    /\ \E i \in 1..Len(FormLog) : FormLog[i].at = "submit" /\ FormLog[i].op = "click_failed"
    /\ Clicks("suggest") # <<>>

\* C29 as stated: the page content is read and parsed only after the results
\* table has become visible; when the table does not become visible within
\* the wait, no content is read and no parse of a page without the table is
\* the result of the run.
C29_ExtractOnlyAfterVisible ==
    FormRan =>
        /\ \A i \in 1..Len(FormLog) :
               FormLog[i].op = "content" =>
                   \E j \in 1..(i - 1) : FormLog[j].op = "wait_for"
        /\ ~fnCall.visible =>
               /\ Part("extract") = <<>>
               /\ ~fnCall.page.table => fnRet.val.result.status # "error"

\* C29 as the code has it: the wait for the table, met or timed out, comes
\* before the one read of the page content, which is the last operation of
\* the run; the result is the parse of that content whether or not the table
\* became visible, and it is error-valued when the content has no table.
C29_ExtractAfterWait ==
    FormRan =>
        /\ Len(Part("wait")) = 1
        /\ Part("wait")[1].op = (IF fnCall.visible THEN "wait_for" ELSE "wait_for_timeout")
        /\ Len(Part("extract")) = 1
        /\ FormLog[Len(FormLog)].op = "content"
        /\ FormLog[Len(FormLog) - 1].at = "wait"
        /\ fnRet.val.result = _parse_financial_results(fnCall.page)
        /\ ~fnCall.page.table => fnRet.val.result.status = "error"

\* Witness of C29: the wait timed out, the content was read all the same and
\* had no table, and the run returned the parser's error dict.
C29_Witness ==
    /\ FormRan
    /\ ~fnCall.visible /\ ~fnCall.page.table
    /\ FormLog[Len(FormLog)].op = "content"
    /\ fnRet.val.result.status = "error"

\* The full-text data attributes a cell carries with a non-empty value, the
\* first one the parser asks for first.
FullTextAttrs(cell) ==
    SelectSeq(<<cell.prev, cell.col>>, LAMBDA v : v # Absent /\ Len(v) > 0)

\* C30: the details field of every EventCalendar and Announcements record is
\* the trimmed full-text data attribute of the details cell when the cell has
\* a non-empty one; otherwise the text of the cell's content span when it has
\* one; otherwise the cell's own text.  A source of lower priority is not
\* used when one of higher priority is there.
C30_RichTextPriority ==
    (Parsed /\ fnCall.cat \in {"EventCalendar", "Announcements"}) =>
        /\ Len(fnRet.val) = Len(WideRows)
        /\ \A i \in 1..Len(WideRows) :
               LET cell == WideRows[i][4]
                   attrs == FullTextAttrs(cell)
                   spans == FindAll(cell, "span")
                   details == fnRet.val[i]["details"]
               IN /\ attrs # <<>> => details = Strip(attrs[1])
                  /\ (attrs = <<>> /\ spans # <<>>) => details = Strip(spans[1].s)
                  /\ (attrs = <<>> /\ spans = <<>>) => details = TextRule(cell)

\* An event calendar row whose details cell has the data attribute, a content
\* span and text of its own: details is the trimmed attribute.
C30_Witness ==
    /\ Parsed /\ fnCall.cat = "EventCalendar"
    /\ Len(WideRows) = 1
    /\ WideRows[1][4] = CellOf("colspan", 3)
    /\ Len(fnRet.val) = 1
    /\ fnRet.val[1]["details"] = <<"full", "c3">>

\* The results parser has returned the parse of a table (at least
\* MinResultRows rows in its body); the rows and the sections of the result.
ResultsParsed ==
    fnCall.fn = "parse_results" /\ fnRet # NoRet /\ fnRet.val.status = "success"
BodyRows == fnCall.page.rows
OutSections == fnRet.val.sections

\* The indices of the section-divider rows, in document order.
Dividers == SelectSeq([i \in 1..Len(BodyRows) |-> i], LAMBDA i : BodyRows[i].sectionCol)

\* The indices of the rows under the k-th divider: after it, before the next
\* divider, not dividers, with more than one cell.
Under(k) ==
    SelectSeq([i \in 1..Len(BodyRows) |-> i],
              LAMBDA i : /\ i > Dividers[k]
                         /\ k < Len(Dividers) => i < Dividers[k + 1]
                         /\ Len(BodyRows[i].cells) > 1)

QuoteParsed ==
    /\ fnCall.fn = "parse_quote" /\ fnRet # NoRet
    /\ fnCall.page.main /\ fnCall.page.fault = "none"
PageFragments == fnCall.page.fragments
OutReturns == fnRet.val.returns

\* C32 as stated: the keys of the returns mapping are recognised period
\* labels, and the value under a label is the percentage of a fragment of the
\* page whose period label is that label; a fragment with another period
\* label does not set or overwrite it.
C32_ReturnsByOwnPeriod ==
    QuoteParsed =>
        \A e \in OutReturns :
            /\ \E i \in 1..Len(Periods) : Periods[i] = e[1]
            /\ \E j \in 1..Len(PageFragments) :
                   /\ PageFragments[j].period = e[1]
                   /\ PageFragments[j].pct = e[2]

\* The call's scrape routine launched a browser; the routine is over (the
\* category function of a list category, the scrape coroutine of a worker
\* category); the last browser step of the call.
Launched(c) == \E i \in 1..Len(browserLog[c]) : browserLog[c][i] = "launch"
RoutineOver(c) ==
    \/ cat[c] \in ListCategories /\ pc[c] = "done"
    \/ cat[c] \in WorkerCategories /\ wpc[c] \in {"exit", "dead"}
LastStep(c) == browserLog[c][Len(browserLog[c])]

StepFailed(c) ==
    \E i \in 1..Len(browserLog[c]) :
        browserLog[c][i] \in {"launch_failed", "setup_failed", "goto_failed",
                              "find_input_failed", "find_input_none", "interact_failed",
                              "content_failed"}

\* The call of a worker category is over.
WorkerCallOver(c) == cat[c] \in WorkerCategories /\ pc[c] = "done"

\* C34: get_equity_quote_for_symbol and get_financial_results_for_symbol
\* never raise; a call in which the library is missing, a worker step
\* failed, the join timed out or the queue was empty returns an error-valued
\* object, so that a value that is not error-valued comes only from a worker
\* that ran to its end without a failure and was joined in time.
C34_FailuresAreValues ==
    \A c \in Calls :
        WorkerCallOver(c) =>
            /\ result[c].kind = "obj"
            /\ ~PLAYWRIGHT_AVAILABLE => result[c].err = "error_playwright_missing"
            /\ StepFailed(c) => result[c].err \in {"error_exc", "error_obj", "error_timeout"}
            /\ wpc[c] \notin {"none", "dead"} => result[c].err = "error_timeout"
            /\ result[c].err = "data" =>
                   /\ PLAYWRIGHT_AVAILABLE /\ wpc[c] = "dead" /\ ~StepFailed(c)
                   /\ LastStep(c) = "close"

\* Witness of C34: a call that timed out while its worker was still running
\* has returned the timeout error object.
C34_Witness ==
    \E c \in Calls :
        /\ WorkerCallOver(c) /\ cat[c] = "EquityQuote"
        /\ wpc[c] \notin {"none", "exit", "dead"}
        /\ result[c] = ObjResult("error_timeout")

\* C35: the worker of an EquityQuote or FinancialResults call puts one value
\* on the call's queue, the result of the scrape or an error object, on every
\* path before it ends, and nothing before; a caller that finds the worker
\* ended returns that value, and never the "no result" error.
C35_OneValueHandOff ==
    [][ \A c \in Calls :
          /\ Len(queue'[c]) <= 1
          /\ wpc'[c] \in AutomationSteps \cup {"launch"} => queue'[c] = <<>>
          /\ (wpc'[c] \in {"exit", "dead"} /\ pc'[c] = "join") => Len(queue'[c]) = 1
          /\ result'[c].err # "error_no_result"
          /\ (pc[c] = "join" /\ pc'[c] = "done" /\ wpc[c] = "dead") =>
                 /\ Len(queue[c]) = 1
                 /\ result'[c] = ObjResult(queue[c][1])
                 /\ queue'[c] = <<>> ]_vars

\* Witness of C35: a worker that raised has ended and its caller has returned
\* the error object the worker put on the queue.
C35_Witness ==
    \E c \in Calls :
        /\ WorkerCallOver(c) /\ wpc[c] = "dead"
        /\ StepFailed(c)
        /\ result[c] = ObjResult("error_exc")
        /\ queue[c] = <<>>

\* The symbol parameter of the request is missing (the default "") or has
\* nothing but white space.
BlankSymbol == \A i \in 1..Len(fnCall.raw) : fnCall.raw[i] = " "

====
